---- MODULE Spec2Model ----
(***************************************************************************)
(* MARC line-record codec of MARCoBot: the line parser mrk_str_to_field,   *)
(* the record serializer record_to_mrk_from_record (engine/mrk_helpers.py) *)
(* and the fixed-width 008 body builder build_008_kormarc_bk               *)
(* (engine/field_builders.py).                                             *)
(*                                                                         *)
(* A Python str is a sequence of one-character strings; None is NoneV.     *)
(***************************************************************************)
EXTENDS Integers, Sequences, FiniteSets, TLC

VARIABLES
    rec,     \* the pymarc Record: leader and fields in append order
    mrk,     \* the text record_to_mrk_from_record last returned
    line,    \* the argument of the last mrk_str_to_field call
    idx,     \* which line of mrk that argument was (0: not a line of mrk)
    field,   \* what that call returned
    args,    \* the arguments of the build_008_kormarc_bk call
    body,    \* its outcome
    pc,      \* position of the caller
    calls,   \* concurrent calls: function, argument, position, result
    frames,  \* the local variables of each call
    upstream, \* what the lookups of generate_all_oneclick return
    out      \* what each of the two generate_all_oneclick returned

vars ==
    <<rec, mrk, line, idx, field, args, body, pc, calls, frames, upstream, out>>

-----------------------------------------------------------------------------
(* Python values *)

NoneV == <<"<None>">>

Digits == {"0", "1", "2", "3", "4", "5", "6", "7", "8", "9"}

DigitVal(c) ==
    CASE c = "0" -> 0 [] c = "1" -> 1 [] c = "2" -> 2 [] c = "3" -> 3
      [] c = "4" -> 4 [] c = "5" -> 5 [] c = "6" -> 6 [] c = "7" -> 7
      [] c = "8" -> 8 [] c = "9" -> 9

\* str.isspace of one character; also the regex class \s
IsSpace(c) == c \in {" ", "\t", "\n", "\r"}

\* str.isdigit
IsDigitStr(s) == Len(s) > 0 /\ \A i \in 1..Len(s) : s[i] \in Digits

RECURSIVE IntOf(_)
\* int(s) of a digit string
IntOf(s) ==
    IF Len(s) = 0 THEN 0
    ELSE 10 * IntOf(SubSeq(s, 1, Len(s) - 1)) + DigitVal(s[Len(s)])

RECURSIVE LStrip(_)
LStrip(s) == IF Len(s) > 0 /\ IsSpace(s[1]) THEN LStrip(Tail(s)) ELSE s

RECURSIVE RStrip(_)
RStrip(s) ==
    IF Len(s) > 0 /\ IsSpace(s[Len(s)]) THEN RStrip(SubSeq(s, 1, Len(s) - 1)) ELSE s

\* str.strip()
Strip(s) == RStrip(LStrip(s))

\* s[a:] of Python, a counted from 0
From(s, a) == SubSeq(s, a + 1, Len(s))

\* the regex "." : any character but a line feed
NoLineFeed(s) == \A i \in 1..Len(s) : s[i] # "\n"

-----------------------------------------------------------------------------
(* pymarc Field values *)

NoField ==
    [kind |-> "None", tag |-> <<>>, data |-> <<>>, ind |-> <<>>,
     form |-> "list", subs |-> <<>>]

\* Field(tag=tag, data=data)
ControlField(tag, data) ==
    [kind |-> "control", tag |-> tag, data |-> data, ind |-> <<>>,
     form |-> "list", subs |-> <<>>]

\* Subfield(code, value)
Subfield(code, value) == <<code, value>>

\* Field(tag=tag, indicators=[ind1, ind2], subfields=subfields)
DataField(tag, ind, subs) ==
    [kind |-> "data", tag |-> tag, data |-> <<>>, ind |-> ind,
     form |-> "list", subs |-> subs]

-----------------------------------------------------------------------------
(* mrk_str_to_field *)

\* what the caller passes: a str, None, a Field, or some other object
\* an object that is no pymarc Field, returned as it is by step 1
TheObject ==
    [kind |-> "object", tag |-> <<>>, data |-> <<>>, ind |-> <<>>,
     form |-> "list", subs |-> <<>>]

PyNone ==
    [kind |-> "None", text |-> <<>>, fld |-> NoField, tagAttr |-> FALSE,
     payloadAttr |-> FALSE, attrRaises |-> FALSE, strRaises |-> FALSE]

PyStr(t) ==
    [kind |-> "str", text |-> t, fld |-> NoField, tagAttr |-> FALSE,
     payloadAttr |-> FALSE, attrRaises |-> FALSE, strRaises |-> FALSE]

PyField(f) ==
    [kind |-> "object", text |-> <<>>, fld |-> f, tagAttr |-> TRUE,
     payloadAttr |-> TRUE, attrRaises |-> FALSE, strRaises |-> FALSE]

\* an object with str() = t; tagAttr: its tag attribute is not None;
\* payloadAttr: it has a data or a subfields attribute; attrRaises: reading
\* its attributes raises; strRaises: str() of it raises
PyObject(t, tagAttr, payloadAttr, attrRaises, strRaises) ==
    [kind |-> "object", text |-> t, fld |-> TheObject, tagAttr |-> tagAttr,
     payloadAttr |-> payloadAttr, attrRaises |-> attrRaises,
     strRaises |-> strRaises]

Raised ==
    [kind |-> "raise", tag |-> <<>>, data |-> <<>>, ind |-> <<>>,
     form |-> "list", subs |-> <<>>]

\* variant: step 1 never returns the argument
IsFieldLikeNever(l) == FALSE

\* the try block of step 1: TRUE when it returns the argument itself
IsFieldLike(l) ==
    IF l.attrRaises THEN FALSE
    ELSE l.tagAttr /\ l.payloadAttr

\* variant: str() is called outside any try
CoerceNoCatch(l) ==
    IF l.kind = "str" THEN [st |-> "ok", text |-> l.text]
    ELSE IF l.strRaises THEN [st |-> "raise", text |-> <<>>]
    ELSE [st |-> "ok", text |-> l.text]

\* step 2: str(line) of a non-string, None returned when str() raises
CoerceStr(l) ==
    IF l.kind = "str" THEN [st |-> "ok", text |-> l.text]
    ELSE IF l.strRaises THEN [st |-> "none", text |-> <<>>]
    ELSE [st |-> "ok", text |-> l.text]

\* "=" , three digits, two whitespace characters
HasTagPrefix(s) ==
    /\ Len(s) >= 6
    /\ s[1] = "="
    /\ s[2] \in Digits /\ s[3] \in Digits /\ s[4] \in Digits
    /\ IsSpace(s[5]) /\ IsSpace(s[6])

\* re.match(r"^=(\d{3})\s{2}(.)(.)(.*)$", s) on a stripped s
MatchData(s) == HasTagPrefix(s) /\ Len(s) >= 8 /\ NoLineFeed(From(s, 6))

\* re.match(r"^=(\d{3})\s\s(.*)$", s) on a stripped s
MatchControl(s) == HasTagPrefix(s) /\ NoLineFeed(From(s, 6))

\* variant: the value runs to the end of the text
ValueToEnd(t, j) == Len(t)

RECURSIVE ValueEnd(_, _)
\* the inner while: the first j >= from (counted from 0) with t[j] = "$", or len(t)
ValueEnd(t, j) ==
    IF j < Len(t) /\ t[j + 1] # "$" THEN ValueEnd(t, j + 1) ELSE j

\* variant: every subfield is kept, whatever its value
KeepAnySubfield(code, value) == TRUE

\* if code and value
KeepSubfield(code, value) == code # <<>> /\ value # <<>>

\* variant: the character at i, the "$" itself, is the code
CodeAtDollar(t, i) == <<t[i + 1]>>

\* code = subs_part[i + 1], i counted from 0
CodeAt(t, i) == <<t[i + 2]>>

RECURSIVE ParseSubfields(_, _)
\* step 6, the while loop from position i (counted from 0)
ParseSubfields(t, i) ==
    IF ~(i < Len(t)) THEN <<>>
    ELSE IF t[i + 1] # "$" THEN ParseSubfields(t, i + 1)
    ELSE IF i + 1 >= Len(t) THEN <<>>
    ELSE LET code  == CodeAt(t, i)
             j     == ValueEnd(t, i + 2)
             value == Strip(SubSeq(t, i + 3, j))
         IN  (IF KeepSubfield(code, value)
                 THEN <<Subfield(code, value)>> ELSE <<>>)
             \o ParseSubfields(t, j)

\* variant: the backslash is kept
BackslashKept(c) == c

\* " " if raw == "\\" else raw
BackslashToBlank(c) == IF c = "\\" THEN " " ELSE c

\* variant: the two indicators change places
IndicatorsSwapped(ind1_raw, ind2_raw) ==
    <<<<BackslashToBlank(ind2_raw)>>, <<BackslashToBlank(ind1_raw)>>>>

\* step 5: ind1, ind2 from the two characters after the tag
Indicators(ind1_raw, ind2_raw) ==
    <<<<BackslashToBlank(ind1_raw)>>, <<BackslashToBlank(ind2_raw)>>>>

\* variant: no minimum length
RejectedNoLength(s) == ~(Len(s) > 0 /\ s[1] = "=")

\* not s.startswith("=") or len(s) < 8
Rejected(s) == ~(Len(s) > 0 /\ s[1] = "=") \/ Len(s) < 8

\* variant: the two characters in the indicator places are left out
ControlDataTailOnly(ind1_raw, ind2_raw, tail) == Strip(tail)

\* step 4: (ind1_raw + ind2_raw + tail).strip()
ControlData(ind1_raw, ind2_raw, tail) == Strip(<<ind1_raw, ind2_raw>> \o tail)

\* variant: tag 010 counts as a control tag
TagAtMost10(tag) == IsDigitStr(tag) /\ IntOf(tag) <= 10

\* step 4: tag.isdigit() and int(tag) < 10
TagBelow10(tag) == IsDigitStr(tag) /\ IntOf(tag) < 10

\* steps 3 to 6 on the stripped text s
ParseStripped(s) ==
    IF Rejected(s) THEN NoField
    ELSE IF ~MatchData(s) THEN
        IF ~MatchControl(s) THEN NoField
        ELSE LET tag  == SubSeq(s, 2, 4)
                 data == Strip(From(s, 6))
             IN  IF TagBelow10(tag)
                 THEN (IF data # <<>> THEN ControlField(tag, data) ELSE NoField)
                 ELSE NoField
    ELSE LET tag  == SubSeq(s, 2, 4)
             ind1 == s[7]
             ind2 == s[8]
             tail == From(s, 8)
         IN  IF TagBelow10(tag)
             THEN LET data == ControlData(ind1, ind2, tail)
                  IN  IF data # <<>> THEN ControlField(tag, data) ELSE NoField
             ELSE IF \A k \in 1..Len(tail) : tail[k] # "$" THEN NoField
             ELSE LET subfields == ParseSubfields(tail, 0)
                  IN  IF subfields = <<>> THEN NoField
                      ELSE DataField(tag, Indicators(ind1, ind2), subfields)

mrk_str_to_field(l) ==
    IF l.kind = "None" THEN NoField
    ELSE IF IsFieldLike(l) THEN l.fld
    ELSE LET c == CoerceStr(l)
         IN  IF c.st = "raise" THEN Raised
             ELSE IF c.st = "none" THEN NoField
             ELSE ParseStripped(Strip(c.text))

\* the copy of utils.py, line 6035: the same steps as the one of mrk_helpers.py
mrk_str_to_field_utils6035(l) ==
    IF l.kind = "None" THEN NoField
    ELSE IF IsFieldLike(l) THEN l.fld
    ELSE LET c == CoerceStr(l)
         IN  IF c.st = "raise" THEN Raised
             ELSE IF c.st = "none" THEN NoField
             ELSE ParseStripped(Strip(c.text))

\* [a-zA-Z]
AsciiLetters ==
    {"a", "b", "c", "d", "e", "f", "g", "h", "i", "j", "k", "l", "m",
     "n", "o", "p", "q", "r", "s", "t", "u", "v", "w", "x", "y", "z",
     "A", "B", "C", "D", "E", "F", "G", "H", "I", "J", "K", "L", "M",
     "N", "O", "P", "Q", "R", "S", "T", "U", "V", "W", "X", "Y", "Z"}

RECURSIVE SplitAtCodes(_)
\* re.split(r"(\$[a-zA-Z])", tail) without the empty parts, which the loop
\* skips: the texts between the matches and the matches themselves
SplitAtCodes(t) ==
    LET starts == {k \in 1..(Len(t) - 1) : t[k] = "$" /\ t[k + 1] \in AsciiLetters}
    IN  IF t = <<>> THEN <<>>
        ELSE IF starts = {} THEN <<t>>
        ELSE LET k == CHOOSE n \in starts : \A m \in starts : n <= m
             IN  (IF k > 1 THEN <<SubSeq(t, 1, k - 1)>> ELSE <<>>)
                 \o <<SubSeq(t, k, k + 1)>>
                 \o SplitAtCodes(From(t, k + 1))

RECURSIVE CollectSubfields(_, _, _)
\* the for loop over the parts and the append after it (utils.py 1844-1860):
\* cur_code is None until a part of two characters starting with "$" is met;
\* buf holds the parts joined, empty exactly when the list is, as no part is
CollectSubfields(parts, cur_code, buf) ==
    LET done == IF cur_code # NoneV /\ buf # <<>>
                THEN <<Subfield(cur_code, Strip(buf))>> ELSE <<>>
    IN  IF parts = <<>> THEN done
        ELSE LET p == Head(parts)
             IN  IF p[1] = "$" /\ Len(p) = 2
                 THEN done \o CollectSubfields(Tail(parts), <<p[2]>>, <<>>)
                 ELSE CollectSubfields(Tail(parts), cur_code, buf \o p)

\* utils.py 1824-1862 on the stripped text s
ParseStrippedFirst(s) ==
    IF ~(Len(s) > 0 /\ s[1] = "=") \/ Len(s) < 6 THEN NoField
    ELSE IF /\ HasTagPrefix(s) /\ Len(s) >= 7
            /\ \A k \in 7..Len(s) : s[k] # "$"
            /\ IntOf(SubSeq(s, 2, 4)) < 10
         THEN ControlField(SubSeq(s, 2, 4), From(s, 6))
    ELSE IF ~MatchData(s) THEN NoField
    ELSE DataField(SubSeq(s, 2, 4), Indicators(s[7], s[8]),
                   CollectSubfields(SplitAtCodes(From(s, 8)), NoneV, <<>>))

\* the copy of utils.py, line 1820: "if not line" first, then strip() of
\* whatever was passed, which an object that is no str does not have
mrk_str_to_field_utils1820(l) ==
    IF l.kind = "None" \/ (l.kind = "str" /\ l.text = <<>>) THEN NoField
    ELSE IF l.kind # "str" THEN Raised
    ELSE ParseStrippedFirst(Strip(l.text))

\* the copy of utils.py, line 3476: line for line the one of line 1820
mrk_str_to_field_utils3476(l) ==
    IF l.kind = "None" \/ (l.kind = "str" /\ l.text = <<>>) THEN NoField
    ELSE IF l.kind # "str" THEN Raised
    ELSE ParseStrippedFirst(Strip(l.text))

-----------------------------------------------------------------------------
(* record_to_mrk_from_record *)

RECURSIVE Join(_, _)
\* sep.join(lines)
Join(lines, sep) ==
    IF Len(lines) = 0 THEN <<>>
    ELSE IF Len(lines) = 1 THEN lines[1]
    ELSE lines[1] \o sep \o Join(Tail(lines), sep)

RECURSIVE SplitAt(_, _)
\* text.split(sep) for a one-character sep
SplitAt(text, sep) ==
    IF \A k \in 1..Len(text) : text[k] # sep THEN <<text>>
    ELSE LET k == CHOOSE n \in 1..Len(text) :
                      text[n] = sep /\ \A m \in 1..(n - 1) : text[m] # sep
         IN  <<SubSeq(text, 1, k - 1)>> \o SplitAt(From(text, k), sep)

\* the leader line: bytes are decoded, anything else goes through str()
LeaderLine(leader) == <<"=", "L", "D", "R", " ", " ">> \o leader.text

\* (f.indicators[k] if getattr(f, "indicators", None) else " ") or " "
IndicatorOf(f, k) ==
    IF f.ind = <<>> THEN <<" ">>
    ELSE IF f.ind[k] = <<>> \/ f.ind[k] = NoneV THEN <<" ">>
    ELSE f.ind[k]

\* variant: a blank stays a blank
IndicatorAsStored(i) == i

\* blank -> "\"
IndicatorDisp(i) == IF i = <<" ">> THEN <<"\\">> ELSE i

\* variant: a blank between the code and the value
CodeBlankValue(code, value) == code \o <<" ">> \o value

\* f"${s.code}{s.value}" after the "$"
CodeValue(code, value) == code \o value

RECURSIVE PartsOfObjects(_)
\* for s in subs: parts += f"${s.code}{s.value}"
PartsOfObjects(subs) ==
    IF Len(subs) = 0 THEN <<>>
    ELSE <<"$">> \o CodeValue(subs[1][1], subs[1][2]) \o PartsOfObjects(Tail(subs))

RECURSIVE PartsOfFlat(_)
\* it = iter(subs); for code, val in zip(it, it): parts += f"${code}{val}"
PartsOfFlat(subs) ==
    IF Len(subs) < 2 THEN <<>>
    ELSE <<"$">> \o subs[1] \o subs[2] \o PartsOfFlat(Tail(Tail(subs)))

\* a plain (code, value) tuple: a pair without the attributes code and value
PlainPair(code, value) == <<code, value, "tuple">>

IsSubfield(x) == Len(x) = 2

\* str() of an item of a list: a Subfield named tuple or a plain tuple
ItemStr(x) ==
    IF IsSubfield(x)
    THEN <<"S", "u", "b", "f", "i", "e", "l", "d", "(", "c", "o", "d", "e", "=", "'">>
         \o x[1] \o <<"'", ",", " ", "v", "a", "l", "u", "e", "=", "'">>
         \o x[2] \o <<"'", ")">>
    ELSE <<"(", "'">> \o x[1] \o <<"'", ",", " ", "'">> \o x[2] \o <<"'", ")">>

RECURSIVE PartsUntilError(_)
\* for s in ...: parts += f"${s.code}{s.value}", up to the first item that
\* has no code attribute
PartsUntilError(subs) ==
    IF Len(subs) = 0 \/ ~IsSubfield(subs[1]) THEN <<>>
    ELSE <<"$">> \o subs[1][1] \o subs[1][2] \o PartsUntilError(Tail(subs))

\* s.code raises AttributeError on some item
AttributeMissing(subs) == \E k \in 1..Len(subs) : ~IsSubfield(subs[k])

\* TRUE when the subfields are read by iterating the field: "iter", the field
\* hands out a new iterator each time; "self", the field is its own iterator
\* and keeps the position
IsIterated(f) == f.form \in {"iter", "self"}

\* the three branches on the subfields of f.  form "list": a list of Subfield
\* objects or plain tuples; "flat": a list of strings; "iter", "self":
\* subfields kept in another iterable and read by iterating the field;
\* "none": no subfields attribute, so that iterating the field raises
SubfieldParts(f) ==
    IF f.form = "list" /\ Len(f.subs) > 0 /\ IsSubfield(f.subs[1])
        THEN PartsOfObjects(f.subs)
    ELSE IF f.form = "list"
        THEN PartsOfFlat([k \in 1..Len(f.subs) |-> ItemStr(f.subs[k])])
    ELSE IF f.form = "flat" THEN PartsOfFlat(f.subs)
    ELSE IF IsIterated(f) THEN PartsUntilError(f.subs)
    ELSE <<>>

\* variant: no try around the last branch
ExceptMissing(raises) == raises

\* try: ... except Exception: pass
ExceptPass(raises) == FALSE

\* TRUE when an exception leaves the branches on the subfields of f
SubfieldsRaise(f) ==
    IF f.form = "list" /\ Len(f.subs) > 0 /\ IsSubfield(f.subs[1])
        THEN AttributeMissing(f.subs)
    ELSE IF f.form = "list" \/ f.form = "flat" THEN FALSE
    ELSE IF IsIterated(f) THEN ExceptPass(AttributeMissing(f.subs))
    ELSE ExceptPass(TRUE)

\* variant: every field is written as a data field
IsControlNever(tag) == FALSE

\* tag.isdigit() and int(tag) < 10
IsControlTag(tag) == IsDigitStr(tag) /\ IntOf(tag) < 10

\* f"={tag}  {ind1_disp}{ind2_disp}"
IndicatorPart(f) ==
    <<"=">> \o f.tag \o <<" ", " ">>
    \o IndicatorDisp(IndicatorOf(f, 1)) \o IndicatorDisp(IndicatorOf(f, 2))

\* the line appended for one field of the record
FieldLine(f) ==
    IF IsControlTag(f.tag)
    THEN <<"=">> \o f.tag \o <<" ", " ">>
         \o (IF f.data = NoneV THEN <<>> ELSE f.data)
    ELSE IndicatorPart(f) \o SubfieldParts(f)

\* variant: the fields are taken in tag order
FieldLinesByTag(fields) ==
    LET sorted == SortSeq(fields, LAMBDA a, b : IntOf(a.tag) < IntOf(b.tag))
    IN  [i \in 1..Len(sorted) |-> FieldLine(sorted[i])]

\* for f in rec.get_fields(): one line each, in the record's order
FieldLines(fields) == [i \in 1..Len(fields) |-> FieldLine(fields[i])]

\* the call ends with an exception and returns nothing
AttributeError == <<"<AttributeError>">>

record_to_mrk_from_record(r) ==
    IF \E i \in 1..Len(r.fields) :
          ~IsControlTag(r.fields[i].tag) /\ SubfieldsRaise(r.fields[i])
    THEN AttributeError
    ELSE Join(<<LeaderLine(r.leader)>> \o FieldLines(r.fields), <<"\n">>)

-----------------------------------------------------------------------------
(* build_008_kormarc_bk *)

\* a keyword argument the caller leaves out
Omitted == <<"<omitted>">>

Blanks(n) == [i \in 1..n |-> " "]

\* variant: the slice keeps everything
TakeAll(s, n) == s

\* s[:n]
Take(s, n) == SubSeq(s, 1, IF Len(s) < n THEN Len(s) ELSE n)

\* variant: the blanks go in front
PadLeft(s, n) ==
    LET t == IF s = NoneV THEN <<>> ELSE s
    IN  IF Len(t) >= n THEN Take(t, n) ELSE Blanks(n - Len(t)) \o t

\* pad(s, n): s = "" if s is None else str(s); (s[:n] + " " * n)[:n]
pad(s, n) ==
    LET t == IF s = NoneV THEN <<>> ELSE s
    IN  Take(Take(t, n) \o Blanks(n), n)

\* the defaults of the signature
WithDefaults(a) ==
    [a EXCEPT
        !.date2           = IF @ = Omitted THEN <<>> ELSE @,
        !.illus4          = IF @ = Omitted THEN <<>> ELSE @,
        !.has_index       = IF @ = Omitted THEN <<"0">> ELSE @,
        !.lit_form        = IF @ = Omitted THEN <<" ">> ELSE @,
        !.bio             = IF @ = Omitted THEN <<" ">> ELSE @,
        !.type_of_date    = IF @ = Omitted THEN <<"s">> ELSE @,
        !.modified_record = IF @ = Omitted THEN <<" ">> ELSE @,
        !.cataloging_src  = IF @ = Omitted THEN <<"a">> ELSE @]

\* variant: nothing is checked
DatesUnchecked(a) == TRUE

\* the two checks that raise ValueError
DatesValid(a) ==
    /\ Len(a.date_entered) = 6 /\ IsDigitStr(a.date_entered)
    /\ Len(a.date1) = 4

\* variant: the flag is copied as given
IndexFlagAsGiven(h) == IF h = NoneV THEN <<"0">> ELSE h

\* has_index if has_index in ("0", "1") else "0"
IndexFlag(h) == IF h = <<"0">> \/ h = <<"1">> THEN h ELSE <<"0">>

\* "".join([...]) of the seventeen pieces
Assemble008(a) ==
    a.date_entered
    \o pad(a.type_of_date, 1)
    \o a.date1
    \o pad(a.date2, 4)
    \o pad(a.country3, 3)
    \o pad(a.illus4, 4)
    \o Blanks(4)
    \o Blanks(2)
    \o pad(a.modified_record, 1)
    \o <<"0">>
    \o <<"0">>
    \o IndexFlag(a.has_index)
    \o pad(a.cataloging_src, 1)
    \o pad(a.lit_form, 1)
    \o pad(a.bio, 1)
    \o pad(a.lang3, 3)
    \o Blanks(2)

\* the outcome of a call: the body, or the exception raised
build_008_kormarc_bk(given) ==
    LET a == WithDefaults(given)
    IN  IF ~DatesValid(a) THEN [st |-> "ValueError", text |-> <<>>]
        ELSE LET b == Assemble008(a)
             IN  IF Len(b) # 40 THEN [st |-> "AssertionError", text |-> <<>>]
                 ELSE [st |-> "ok", text |-> b]

\* build_008_body_bk of field_builders.py: the same checks and the same join,
\* the optional parameters keyword-only
build_008_body_bk(given) ==
    LET a == WithDefaults(given)
    IN  IF ~(Len(a.date_entered) = 6 /\ IsDigitStr(a.date_entered))
        THEN [st |-> "ValueError", text |-> <<>>]
        ELSE IF Len(a.date1) # 4 THEN [st |-> "ValueError", text |-> <<>>]
        ELSE LET b == Assemble008(a)
             IN  IF Len(b) # 40 THEN [st |-> "AssertionError", text |-> <<>>]
                 ELSE [st |-> "ok", text |-> b]

\* build_008_kormarc_bk of utils.py, line 2406: only the lengths are checked
build_008_kormarc_bk_utils2406(given) ==
    LET a == WithDefaults(given)
    IN  IF Len(a.date_entered) # 6 THEN [st |-> "ValueError", text |-> <<>>]
        ELSE IF Len(a.date1) # 4 THEN [st |-> "ValueError", text |-> <<>>]
        ELSE LET b == Assemble008(a)
             IN  IF Len(b) # 40 THEN [st |-> "AssertionError", text |-> <<>>]
                 ELSE [st |-> "ok", text |-> b]

\* the join of utils.py, lines 4055-4073: has_index goes in as given
Assemble008AsGiven(a) ==
    a.date_entered
    \o pad(a.type_of_date, 1)
    \o a.date1
    \o pad(a.date2, 4)
    \o pad(a.country3, 3)
    \o pad(a.illus4, 4)
    \o Blanks(4)
    \o Blanks(2)
    \o pad(a.modified_record, 1)
    \o <<"0">>
    \o <<"0">>
    \o a.has_index
    \o pad(a.cataloging_src, 1)
    \o pad(a.lit_form, 1)
    \o pad(a.bio, 1)
    \o pad(a.lang3, 3)
    \o Blanks(2)

\* build_008_kormarc_bk of utils.py, line 4036, the one the module ends up
\* with: only the lengths are checked, has_index is joined as given (None
\* makes join raise TypeError), and the length of the result is not checked
build_008_kormarc_bk_utils4036(given) ==
    LET a == WithDefaults(given)
    IN  IF Len(a.date_entered) # 6 THEN [st |-> "ValueError", text |-> <<>>]
        ELSE IF Len(a.date1) # 4 THEN [st |-> "ValueError", text |-> <<>>]
        ELSE IF a.has_index = NoneV THEN [st |-> "TypeError", text |-> <<>>]
        ELSE [st |-> "ok", text |-> Assemble008AsGiven(a)]

-----------------------------------------------------------------------------
(* bounds and input sets *)

MaxFields == 2    \* fields appended to one record
MaxData   == 3    \* characters of a control field's data
MaxVal    == 2    \* characters of a subfield value
MaxBody   == 4    \* characters after the head of a text line
MaxTail   == 6    \* characters after the indicators of a data-field line
MaxCalls  == 2    \* calls running at the same time

\* all strings over alphabet A of lo..hi characters
Strs(A, lo, hi) == UNION {[1..k -> A] : k \in lo..hi}

Tag001 == <<"0", "0", "1">>
Tag008 == <<"0", "0", "8">>
Tag010 == <<"0", "1", "0">>
Tag100 == <<"1", "0", "0">>
Tag245 == <<"2", "4", "5">>
Tag500 == <<"5", "0", "0">>

LeaderText == <<"n", "a", "m", " ", "a">>

Leaders == {[bytes |-> b, text |-> LeaderText] : b \in BOOLEAN}

\* Record(): no fields yet
EmptyRecord(l) == [leader |-> l, fields |-> <<>>]

Blank == <<" ">>
SubAX == Subfield(<<"a">>, <<"x">>)
SubBY == Subfield(<<"b">>, <<"y">>)
PairAX == PlainPair(<<"a">>, <<"x">>)
PairBY == PlainPair(<<"b">>, <<"y">>)

\* a data field whose subfields are kept in another representation
OtherForm(tag, ind, form, subs) ==
    [kind |-> "data", tag |-> tag, data |-> <<>>, ind |-> ind,
     form |-> form, subs |-> subs]

\* the fields appended to records
FieldPool ==
    { ControlField(Tag008, <<"a", "b">>),
      ControlField(Tag001, <<"a">>),
      DataField(Tag245, <<Blank, Blank>>, <<SubAX>>),
      DataField(Tag245, <<<<"1">>, <<"0">>>>, <<SubAX, SubBY>>),
      DataField(Tag100, <<<<"1">>, Blank>>, <<SubAX>>),
      DataField(Tag500, <<Blank, Blank>>, <<Subfield(<<"a">>, <<"x", "\n", "y">>)>>),
      OtherForm(Tag500, <<Blank, Blank>>, "flat", <<<<"a">>, <<"x">>, <<"b">>>>),
      OtherForm(Tag500, <<Blank, <<"1">>>>, "iter", <<SubBY, SubAX>>),
      OtherForm(Tag500, <<Blank, Blank>>, "list", <<SubAX, PairBY>>),
      OtherForm(Tag500, <<>>, "none", <<>>) }

\* the line of the end-to-end example: =100  1\$aHong, Gildong
ExampleName ==
    <<"H", "o", "n", "g", ",", " ", "G", "i", "l", "d", "o", "n", "g">>

ExampleLine ==
    <<"=", "1", "0", "0", " ", " ", "1", "\\", "$", "a">> \o ExampleName

\* the field that line stands for: first indicator 1, second blank
ExampleField ==
    DataField(Tag100, <<<<"1">>, Blank>>, <<Subfield(<<"a">>, ExampleName)>>)

\* the field and the line the end-to-end example writes down
ExampleFieldAsWritten ==
    DataField(Tag100, <<Blank, <<"1">>>>, <<Subfield(<<"a">>, ExampleName)>>)

ExampleLineAsWritten ==
    <<"=", "1", "0", "0", " ", " ", "\\", "1", "$", "a">> \o ExampleName

ControlDataChars == {"a", " ", "\n"}
ValueChars       == {"x", " ", "$"}
IndicatorChars   == {" ", "\\", "1"}

RoundTripSubfields ==
    {Subfield(<<"a">>, v) : v \in Strs(ValueChars, 0, MaxVal)}

RoundTripSubfieldLists ==
    {<<a>> : a \in RoundTripSubfields}
    \cup {<<a, b>> : a \in RoundTripSubfields, b \in RoundTripSubfields}

\* the fields serialized and parsed back, one per record
RoundTripFields ==
    {ControlField(t, d) :
        t \in {Tag001, Tag008},
        d \in Strs(ControlDataChars, 0, MaxData) \cup {NoneV}}
    \cup {DataField(Tag245, <<<<i1>>, <<i2>>>>, subs) :
            i1 \in IndicatorChars, i2 \in IndicatorChars,
            subs \in RoundTripSubfieldLists}
    \cup { ExampleField, ExampleFieldAsWritten,
           DataField(Tag010, <<Blank, <<"1">>>>, <<SubAX>>),
           DataField(Tag245, <<>>, <<SubAX>>),
           DataField(Tag245, <<<<>>, <<"1">>>>, <<SubAX>>),
           DataField(Tag245, <<<<"1">>, NoneV>>, <<SubAX>>),
           DataField(Tag245, <<<<"$">>, <<"a">>>>, <<SubAX>>),
           DataField(Tag245, <<Blank, Blank>>, <<Subfield(<<"$">>, <<"x">>), SubBY>>),
           DataField(Tag245, <<Blank, Blank>>, <<Subfield(<<" ">>, <<"x">>)>>),
           DataField(Tag245, <<Blank, Blank>>, <<Subfield(<<"a">>, <<"x", "\n", "y">>)>>),
           DataField(Tag245, <<Blank, Blank>>, <<>>),
           OtherForm(Tag245, <<Blank, Blank>>, "flat", <<<<"a">>, <<"x">>, <<"b">>, <<"y">>>>),
           OtherForm(Tag245, <<Blank, Blank>>, "flat", <<<<"a">>, <<"x">>, <<"b">>>>),
           OtherForm(Tag245, <<Blank, Blank>>, "iter", <<SubAX, SubBY>>),
           OtherForm(Tag245, <<Blank, Blank>>, "iter", <<PairAX, PairBY>>),
           OtherForm(Tag245, <<Blank, Blank>>, "iter", <<SubAX, PairBY>>),
           OtherForm(Tag245, <<Blank, Blank>>, "list", <<PairAX, PairBY>>),
           OtherForm(Tag245, <<Blank, Blank>>, "list", <<SubAX, PairBY>>),
           OtherForm(Tag245, <<Blank, Blank>>, "none", <<>>) }

\* the lines handed to the parser as text: a head, then every body
Heads ==
    { <<"=", "2", "4", "5", " ", " ">>,
      <<"=", "0", "0", "8", " ", " ">>,
      <<"=", "0", "1", "0", " ", " ">>,
      <<" ", "=", "2", "4", "5", " ", " ">>,
      <<"2", "4", "5", " ", " ">>,
      <<"=", "2", "4", "5", " ">>,
      <<"=", "2", "4", " ", " ", " ">> }

BodyChars == {"\\", "1", "$", "a", " "}

\* data-field lines: tag 245, indicators 1 and 0, then every tail
DataHead == <<"=", "2", "4", "5", " ", " ", "1", "0">>

TailChars == {"$", "a", " "}

TailLines == {DataHead \o t : t \in Strs(TailChars, 0, MaxTail)}

TextLines ==
    {h \o b : h \in Heads, b \in Strs(BodyChars, 0, MaxBody)}
    \cup TailLines
    \cup { ExampleLine,
           <<>>,
           <<"=", "2", "4", "5", " ", " ", "1", "0", "$", "a", "x", "\n", "$", "b", "y">>,
           <<"=", "2", "4", "5", "\t", "\n", "1", "0", "$", "a", "x">>,
           <<"=", "0", "0", "8", " ", " ", "a", "\n", "b">> }

\* everything a caller may pass to mrk_str_to_field
InputLines ==
    {PyStr(t) : t \in TextLines}
    \cup {PyNone}
    \cup {PyField(f) : f \in {ControlField(Tag008, <<"a", "b">>),
                               DataField(Tag245, <<Blank, Blank>>, <<SubAX>>)}}
    \cup {PyObject(t, ta, pa, ar, sr) :
            t \in {<<>>, <<"=", "2", "4", "5", " ", " ", "1", "0", "$", "a", "x">>},
            ta \in BOOLEAN, pa \in BOOLEAN, ar \in BOOLEAN, sr \in BOOLEAN}

-----------------------------------------------------------------------------
(* the callers *)

NoArgs ==
    [date_entered |-> <<>>, date1 |-> <<>>, country3 |-> <<>>, lang3 |-> <<>>,
     date2 |-> Omitted, illus4 |-> Omitted, has_index |-> Omitted,
     lit_form |-> Omitted, bio |-> Omitted, type_of_date |-> Omitted,
     modified_record |-> Omitted, cataloging_src |-> Omitted]

NoBody == [st |-> "none", text |-> <<>>]

\* the lines of the text last returned
MrkLines == SplitAt(mrk, "\n")

\* marc_rec.add_field(f)
add_field(f) ==
    /\ pc \in {"build", "serialized", "parsed", "raised"}
    /\ Len(rec.fields) < MaxFields
    /\ rec' = [rec EXCEPT !.fields = Append(@, f)]
    /\ pc' = "build"
    /\ UNCHANGED <<mrk, line, idx, field, args, body, calls, frames, upstream, out>>

\* mrk_text = record_to_mrk_from_record(record)
Serialize ==
    /\ pc \in {"build", "serialized", "parsed", "raised"}
    /\ mrk' = record_to_mrk_from_record(rec)
    /\ pc' = IF mrk' = AttributeError THEN "raised" ELSE "serialized"
    /\ UNCHANGED <<rec, line, idx, field, args, body, calls, frames, upstream, out>>

\* mrk_str_to_field on line i of the text just returned
ParseMrkLine(i) ==
    /\ pc \in {"serialized", "parsed"}
    /\ i \in 1..Len(MrkLines)
    /\ line' = PyStr(MrkLines[i])
    /\ idx' = i
    /\ field' = mrk_str_to_field(line')
    /\ pc' = "parsed"
    /\ UNCHANGED <<rec, mrk, args, body, calls, frames, upstream, out>>

\* mrk_str_to_field on a caller's input
ParseInput ==
    /\ pc = "input"
    /\ field' = mrk_str_to_field(line)
    /\ pc' = "returned"
    /\ UNCHANGED <<rec, mrk, line, idx, args, body, calls, frames, upstream, out>>

\* the field mrk_str_to_field returned for a text, added to a record that is
\* then serialized
SerializeParsed ==
    /\ pc = "returned" /\ line.kind = "str"
    /\ field.kind \in {"control", "data"}
    /\ rec' = [rec EXCEPT !.fields = <<field>>]
    /\ mrk' = record_to_mrk_from_record(rec')
    /\ pc' = "reserialized"
    /\ UNCHANGED <<line, idx, field, args, body, calls, frames, upstream, out>>

\* mrk_str_to_field on what mrk_str_to_field returned
ParseAgain ==
    /\ pc = "returned"
    /\ field.kind \in {"control", "data", "object"}
    /\ line' = IF field.kind = "object" THEN line ELSE PyField(field)
    /\ field' = mrk_str_to_field(line')
    /\ pc' = "returned2"
    /\ UNCHANGED <<rec, mrk, idx, args, body, calls, frames, upstream, out>>

\* a record gathers fields, is serialized, and its lines are parsed again
Init ==
    /\ upstream = <<>>
    /\ out = <<>>
    /\ calls = <<>>
    /\ frames = <<>>
    /\ rec \in {EmptyRecord(l) : l \in Leaders}
    /\ mrk = NoneV
    /\ line = PyNone
    /\ idx = 0
    /\ field = NoField
    /\ args = NoArgs
    /\ body = NoBody
    /\ pc = "build"

Next ==
    \/ \E f \in FieldPool : add_field(f)
    \/ Serialize
    \/ \E i \in 1..Len(MrkLines) : ParseMrkLine(i)

Spec == Init /\ [][Next]_vars

\* the codec as functions: one field serialized and parsed back, or one
\* input parsed
InitCodec ==
    /\ upstream = <<>>
    /\ out = <<>>
    /\ calls = <<>>
    /\ frames = <<>>
    /\ mrk = NoneV
    /\ idx = 0
    /\ field = NoField
    /\ args = NoArgs
    /\ body = NoBody
    /\ \/ /\ rec \in {[leader |-> l, fields |-> <<f>>] :
                        l \in Leaders, f \in RoundTripFields}
          /\ line = PyNone
          /\ pc = "build"
       \/ /\ rec = EmptyRecord([bytes |-> FALSE, text |-> LeaderText])
          /\ line \in InputLines
          /\ pc = "input"

NextCodec ==
    \/ Serialize
    \/ \E i \in 1..Len(MrkLines) : ParseMrkLine(i)
    \/ ParseInput
    \/ SerializeParsed
    \/ ParseAgain

SpecCodec == InitCodec /\ [][NextCodec]_vars

-----------------------------------------------------------------------------
(* calls of build_008_kormarc_bk *)

Date241231 == <<"2", "4", "1", "2", "3", "1">>
Year2024   == <<"2", "0", "2", "4">>

\* every combination of these argument values
Args008 ==
    [date_entered    : { Date241231,
                         <<"2", "0", "2", "4">>,
                         <<"2", "4", "1", "2", "3", "x">>,
                         <<"2", "4", "1", "2", "3", "1", "0">> },
     date1           : { Year2024,
                         <<"1", "9", "u", "u">>,
                         <<"9", "9">>,
                         <<"2", "0", "2", "4", "5">> },
     country3        : { <<"k", "o", " ">>, <<"k">>, NoneV },
     lang3           : { <<"k", "o", "r">>, <<"e", "n">>, <<"e", "n", "g", "x">>,
                         <<"k", "\n", "r">> },
     date2           : { Omitted, <<"2", "0", "2", "5", "6">> },
     illus4          : { Omitted, <<"a", "d", "o", "x", "y">> },
     has_index       : { Omitted, <<"1">>, <<"2">>, <<"1", "0">>, NoneV },
     lit_form        : { Omitted, <<"f", "x">> },
     bio             : { Omitted, NoneV },
     type_of_date    : { Omitted, <<"m", "q">>, <<>> },
     modified_record : { Omitted, <<"x">> },
     cataloging_src  : { Omitted, <<"c">> }]

Build008 ==
    /\ pc = "args"
    /\ body' = build_008_kormarc_bk(args)
    /\ pc' = "built"
    /\ UNCHANGED <<rec, mrk, line, idx, field, args, calls, frames, upstream, out>>

Init008 ==
    /\ upstream = <<>>
    /\ out = <<>>
    /\ calls = <<>>
    /\ frames = <<>>
    /\ rec = EmptyRecord([bytes |-> FALSE, text |-> LeaderText])
    /\ mrk = NoneV
    /\ line = PyNone
    /\ idx = 0
    /\ field = NoField
    /\ args \in Args008
    /\ body = NoBody
    /\ pc = "args"

\* the line "=008  " + body handed to mrk_str_to_field
Line008(b) == <<"=", "0", "0", "8", " ", " ">> \o b

Parse008 ==
    /\ pc = "built"
    /\ body.st = "ok"
    /\ line' = PyStr(Line008(body.text))
    /\ field' = mrk_str_to_field(line')
    /\ pc' = "parsed008"
    /\ UNCHANGED <<rec, mrk, idx, args, body, calls, frames, upstream, out>>

Next008 == Build008 \/ Parse008

Spec008 == Init008 /\ [][Next008]_vars

-----------------------------------------------------------------------------
(* build_008_from_isbn of field_builders.py *)

\* (19|20)\d{2} matched at the start of t
IsYearAt(t) ==
    /\ Len(t) >= 4
    /\ <<t[1], t[2]>> \in {<<"1", "9">>, <<"2", "0">>}
    /\ t[3] \in Digits /\ t[4] \in Digits

\* variant: nothing but the match, nothing when there is none
YearOrNothing(s) ==
    IF \E i \in 1..Len(s) : IsYearAt(From(s, i - 1))
    THEN LET i == CHOOSE n \in 1..Len(s) :
                     /\ IsYearAt(From(s, n - 1))
                     /\ \A k \in 1..(n - 1) : ~IsYearAt(From(s, k - 1))
         IN  SubSeq(s, i, i + 3)
    ELSE <<>>

RECURSIVE extract_year_from_aladin_pubdate(_)
\* re.search(r"(19|20)\d{2}", pubdate_str or ""): the leftmost match, else "19uu"
extract_year_from_aladin_pubdate(s) ==
    IF s = NoneV \/ Len(s) = 0 THEN <<"1", "9", "u", "u">>
    ELSE IF IsYearAt(s) THEN SubSeq(s, 1, 4)
    ELSE extract_year_from_aladin_pubdate(Tail(s))

\* the words the detectors look for, as they occur in a text: a text is the
\* set of those it contains
Words == {"picture", "photo", "index", "novel", "essay", "memoir"}

\* detect_illus4: a for pictures, d for tables, o for photos, in that order
detect_illus4(text) ==
    (IF "picture" \in text THEN <<"a">> ELSE <<>>)
    \o (IF "table" \in text THEN <<"d">> ELSE <<>>)
    \o (IF "photo" \in text THEN <<"o">> ELSE <<>>)

\* detect_index
detect_index(text) == IF "index" \in text THEN <<"1">> ELSE <<"0">>

\* detect_lit_form: the first of letters, travel, poetry, fiction, essay
detect_lit_form(blob) ==
    IF "letters" \in blob THEN <<"i">>
    ELSE IF "travel" \in blob THEN <<"m">>
    ELSE IF "poem" \in blob THEN <<"p">>
    ELSE IF "novel" \in blob THEN <<"f">>
    ELSE IF "essay" \in blob THEN <<"e">>
    ELSE <<" ">>

\* detect_bio
detect_bio(text) ==
    IF "memoir" \in text THEN <<"a">>
    ELSE IF "biography" \in text THEN <<"b">>
    ELSE IF "recollection" \in text THEN <<"d">>
    ELSE <<" ">>

COUNTRY_FIXED == <<"k", "o", " ">>
LANG_FIXED == <<"k", "o", "r">>

\* the country of lines 400-409: override, else the place of the 300, else
\* the fixed code
Country3(override_country3, source_300_place) ==
    IF override_country3 # NoneV /\ override_country3 # <<>> THEN override_country3
    ELSE IF source_300_place = "unknown" THEN <<" ", " ", " ">>
    ELSE COUNTRY_FIXED

\* the keyword arguments build_008_from_isbn passes on
ArgsFromIsbn(i) ==
    [NoArgs EXCEPT
        !.date_entered   = i.today,
        !.date1          = extract_year_from_aladin_pubdate(i.aladin_pubdate),
        !.country3       = Country3(i.override_country3, i.source_300_place),
        !.lang3          = IF i.override_lang3 # NoneV /\ i.override_lang3 # <<>>
                           THEN i.override_lang3 ELSE LANG_FIXED,
        !.illus4         = detect_illus4(i.bigtext),
        !.has_index      = detect_index(i.bigtext),
        !.lit_form       = detect_lit_form(i.bigtext),
        !.bio            = detect_bio(i.bigtext),
        !.cataloging_src = i.cataloging_src]

build_008_from_isbn(i) == build_008_kormarc_bk(ArgsFromIsbn(i))

\* datetime.now().strftime("%y%m%d"), the pubdate, the texts and the overrides
InputsFromIsbn ==
    [today             : { Date241231 },
     aladin_pubdate    : { <<>>, NoneV, Year2024 \o <<"-", "0", "1">>,
                           <<"1", "2", "0", "1", "9", "9">>,
                           <<"a", "1", "9", "9">>,
                           <<"2", "1", "0", "0", " ", "1", "9", "9", "9", "2", "0", "0", "0">> },
     bigtext           : SUBSET Words,
     source_300_place  : { "", "seoul", "unknown" },
     override_country3 : { NoneV, <<>>, <<"u", "s">>, <<"u", "l", "k", "x">> },
     override_lang3    : { NoneV, <<>>, <<"e", "n", "g">>, <<"e", "n", "g", "l", "i">> },
     cataloging_src    : { <<"a">>, NoneV }]

\* year of utils.py, lines 6365-6373: the first four characters of a pubdate
\* of four or more, else "9999"
YearOfPubdate(pubdate) ==
    IF pubdate # NoneV /\ Len(pubdate) >= 4 THEN SubSeq(pubdate, 1, 4)
    ELSE <<"9", "9", "9", "9">>

\* the simplified build_008_from_isbn of utils.py, line 6348: the f-string of
\* lines 6391-6400, whose filler literal is 23 blanks
build_008_from_isbn_utils6348(i) ==
    LET country3 == IF i.override_country3 # NoneV /\ i.override_country3 # <<>>
                    THEN i.override_country3 ELSE <<"k", "o", " ">>
        lang3    == IF i.override_lang3 # NoneV /\ i.override_lang3 # <<>>
                    THEN i.override_lang3 ELSE <<"k", "o", "r">>
    IN  [st |-> "ok",
         text |-> i.today \o <<"s">> \o YearOfPubdate(i.aladin_pubdate)
                  \o Blanks(4) \o country3 \o Blanks(23) \o lang3 \o <<" ">>]

BuildSimplified ==
    /\ pc = "isbn"
    /\ body' = build_008_from_isbn_utils6348(upstream)
    /\ pc' = "built_simplified"
    /\ UNCHANGED <<rec, mrk, line, idx, field, args, calls, frames, upstream, out>>

BuildFromIsbn ==
    /\ pc = "isbn"
    /\ args' = ArgsFromIsbn(upstream)
    /\ body' = build_008_from_isbn(upstream)
    /\ pc' = "built_from_isbn"
    /\ UNCHANGED <<rec, mrk, line, idx, field, calls, frames, upstream, out>>

InitFromIsbn ==
    /\ upstream \in InputsFromIsbn
    /\ out = <<>>
    /\ calls = <<>>
    /\ frames = <<>>
    /\ rec = EmptyRecord([bytes |-> FALSE, text |-> LeaderText])
    /\ mrk = NoneV
    /\ line = PyNone
    /\ idx = 0
    /\ field = NoField
    /\ args = NoArgs
    /\ body = NoBody
    /\ pc = "isbn"

NextFromIsbn == BuildFromIsbn \/ BuildSimplified

SpecFromIsbn == InitFromIsbn /\ [][NextFromIsbn]_vars

-----------------------------------------------------------------------------
(* concurrent calls: each function a step at a time, on its own locals *)

Calls == 1..MaxCalls

\* variant: every call works on the same set of local variables
FrameShared(c) == 1

\* the local variables of a call live in the frame of that call
Frame(c) == c

NoLocals ==
    [lines |-> <<>>, i |-> 0, parts |-> <<>>, subfields |-> <<>>,
     tail |-> <<>>, b |-> <<>>]

Locals(c) == frames[Frame(c)]

\* the call writes its locals
SetLocals(c, new) == frames' = [frames EXCEPT ![Frame(c)] = new]

\* the call returns (or raises) r
Return(c, r) == calls' = [calls EXCEPT ![c].pc = "done", ![c].result = r]

Goto(c, label) == calls' = [calls EXCEPT ![c].pc = label]

At_(c, fn, label) == calls[c].fn = fn /\ calls[c].pc = label

\* the stripped text of a parser call that gets as far as step 3
TextOf(l) == Strip(CoerceStr(l).text)

\* TRUE when the call gets to the subfield loop of step 6
ReachesLoop(l) ==
    /\ l.kind # "None"
    /\ ~IsFieldLike(l)
    /\ CoerceStr(l).st = "ok"
    /\ ~Rejected(TextOf(l))
    /\ MatchData(TextOf(l))
    /\ ~TagBelow10(SubSeq(TextOf(l), 2, 4))
    /\ \E k \in 9..Len(TextOf(l)) : TextOf(l)[k] = "$"

\* mrk_str_to_field, steps 0 to 5 and subfields = []; i, L = 0, len(subs_part)
ParseBegin(c) ==
    /\ At_(c, "parse", "start")
    /\ IF ReachesLoop(calls[c].arg.line)
       THEN /\ SetLocals(c, [Locals(c) EXCEPT
                                !.tail = From(TextOf(calls[c].arg.line), 8),
                                !.subfields = <<>>,
                                !.i = 0])
            /\ Goto(c, "scan")
       ELSE /\ Return(c, mrk_str_to_field(calls[c].arg.line))
            /\ UNCHANGED frames
    /\ UNCHANGED <<rec, mrk, line, idx, field, args, body, pc, upstream, out>>

\* one turn of the while loop of step 6
ParseScan(c) ==
    /\ At_(c, "parse", "scan")
    /\ LET t == Locals(c).tail
           i == Locals(c).i
       IN  IF ~(i < Len(t)) \/ (t[i + 1] = "$" /\ i + 1 >= Len(t))
           THEN Goto(c, "return") /\ UNCHANGED frames
           ELSE IF t[i + 1] # "$"
           THEN SetLocals(c, [Locals(c) EXCEPT !.i = i + 1]) /\ UNCHANGED calls
           ELSE LET code  == <<t[i + 2]>>
                    j     == ValueEnd(t, i + 2)
                    value == Strip(SubSeq(t, i + 3, j))
                IN  /\ SetLocals(c, [Locals(c) EXCEPT
                                        !.subfields =
                                            IF KeepSubfield(code, value)
                                            THEN Append(@, Subfield(code, value))
                                            ELSE @,
                                        !.i = j])
                    /\ UNCHANGED calls
    /\ UNCHANGED <<rec, mrk, line, idx, field, args, body, pc, upstream, out>>

\* if not subfields: return None; return Field(...)
ParseEnd(c) ==
    /\ At_(c, "parse", "return")
    /\ LET s == TextOf(calls[c].arg.line)
       IN  Return(c, IF Locals(c).subfields = <<>> THEN NoField
                     ELSE DataField(SubSeq(s, 2, 4), Indicators(s[7], s[8]),
                                    Locals(c).subfields))
    /\ UNCHANGED <<rec, mrk, line, idx, field, args, body, pc, frames, upstream, out>>

\* record_to_mrk_from_record: lines = [] and the leader line
SerBegin(c) ==
    /\ At_(c, "serialize", "start")
    /\ SetLocals(c, [Locals(c) EXCEPT !.lines = <<LeaderLine(rec.leader)>>, !.i = 0])
    /\ Goto(c, "loop")
    /\ UNCHANGED <<rec, mrk, line, idx, field, args, body, pc, upstream, out>>

\* TRUE when f is read through the iterator position it keeps itself
ReadsOwnIterator(f) == ~IsControlTag(f.tag) /\ f.form = "self"

\* one turn of for f in rec.get_fields()
SerField(c) ==
    /\ At_(c, "serialize", "loop")
    /\ Locals(c).i < Len(rec.fields)
    /\ ~ReadsOwnIterator(rec.fields[Locals(c).i + 1])
    /\ LET f == rec.fields[Locals(c).i + 1]
       IN  IF ~IsControlTag(f.tag) /\ SubfieldsRaise(f)
           THEN Return(c, AttributeError) /\ UNCHANGED frames
           ELSE /\ SetLocals(c, [Locals(c) EXCEPT
                                    !.lines = Append(@, FieldLine(f)),
                                    !.i = @ + 1])
                /\ UNCHANGED calls
    /\ UNCHANGED <<rec, mrk, line, idx, field, args, body, pc, upstream, out>>

\* parts = ""; for s in f: iter(f) sets the position the field keeps to 0
SerIterBegin(c) ==
    /\ At_(c, "serialize", "loop")
    /\ Locals(c).i < Len(rec.fields)
    /\ ReadsOwnIterator(rec.fields[Locals(c).i + 1])
    /\ rec' = [rec EXCEPT !.pos[Locals(c).i + 1] = 0]
    /\ SetLocals(c, [Locals(c) EXCEPT !.parts = <<>>])
    /\ Goto(c, "iter")
    /\ UNCHANGED <<mrk, line, idx, field, args, body, pc, upstream, out>>

\* one turn of for s in f: next(f) reads the item at the position the field
\* keeps and moves it on; the line is appended when the items are used up or
\* an item has no code attribute
SerIterNext(c) ==
    /\ At_(c, "serialize", "iter")
    /\ LET k == Locals(c).i + 1
           f == rec.fields[k]
           p == rec.pos[k]
       IN  IF p < Len(f.subs) /\ IsSubfield(f.subs[p + 1])
           THEN /\ rec' = [rec EXCEPT !.pos[k] = p + 1]
                /\ SetLocals(c, [Locals(c) EXCEPT
                                    !.parts = @ \o <<"$">> \o f.subs[p + 1][1]
                                                \o f.subs[p + 1][2]])
                /\ UNCHANGED calls
           ELSE /\ rec' = [rec EXCEPT
                             !.pos[k] = IF p < Len(f.subs) THEN p + 1 ELSE p]
                /\ SetLocals(c, [Locals(c) EXCEPT
                                    !.lines = Append(@, IndicatorPart(f) \o Locals(c).parts),
                                    !.i = @ + 1])
                /\ Goto(c, "loop")
    /\ UNCHANGED <<mrk, line, idx, field, args, body, pc, upstream, out>>

\* return "\n".join(lines)
SerEnd(c) ==
    /\ At_(c, "serialize", "loop")
    /\ ~(Locals(c).i < Len(rec.fields))
    /\ Return(c, Join(Locals(c).lines, <<"\n">>))
    /\ UNCHANGED <<rec, mrk, line, idx, field, args, body, pc, frames, upstream, out>>

\* build_008_kormarc_bk: the two checks, then body = "".join([...])
B8Begin(c) ==
    /\ At_(c, "build008", "start")
    /\ LET a == WithDefaults(calls[c].arg.args)
       IN  IF ~DatesValid(a)
           THEN Return(c, [st |-> "ValueError", text |-> <<>>]) /\ UNCHANGED frames
           ELSE /\ SetLocals(c, [Locals(c) EXCEPT !.b = Assemble008(a)])
                /\ Goto(c, "assert")
    /\ UNCHANGED <<rec, mrk, line, idx, field, args, body, pc, upstream, out>>

\* the length check and return body
B8End(c) ==
    /\ At_(c, "build008", "assert")
    /\ Return(c, IF Len(Locals(c).b) # 40
                 THEN [st |-> "AssertionError", text |-> <<>>]
                 ELSE [st |-> "ok", text |-> Locals(c).b])
    /\ UNCHANGED <<rec, mrk, line, idx, field, args, body, pc, frames, upstream, out>>

\* the arguments of the concurrent calls
ConcLines ==
    { PyStr(DataHead \o <<"$", "a", "x", "$", "b", "y">>),
      PyStr(DataHead \o <<"$", "a", " ", "$">>),
      PyStr(<<"=", "0", "0", "8", " ", " ", "a", "b">>),
      PyField(DataField(Tag245, <<Blank, Blank>>, <<SubAX>>)) }

\* the records shared by the calls; pos: the iterator position each field
\* object keeps
ConcRecords ==
    { [leader |-> [bytes |-> FALSE, text |-> LeaderText],
       fields |-> <<ControlField(Tag008, <<"a", "b">>),
                    DataField(Tag245, <<<<"1">>, Blank>>, <<SubAX, SubBY>>)>>,
       pos |-> <<0, 0>>],
      [leader |-> [bytes |-> TRUE, text |-> LeaderText],
       fields |-> <<OtherForm(Tag500, <<Blank, Blank>>, "iter", <<SubAX, SubBY>>),
                    OtherForm(Tag500, <<Blank, Blank>>, "list", <<SubAX, PairBY>>)>>,
       pos |-> <<0, 0>>],
      [leader |-> [bytes |-> FALSE, text |-> LeaderText],
       fields |-> <<OtherForm(Tag500, <<Blank, Blank>>, "self", <<SubAX, SubBY>>)>>,
       pos |-> <<0>>] }

ConcArgs008 ==
    { [NoArgs EXCEPT !.date_entered = Date241231, !.date1 = Year2024,
                     !.country3 = <<"k", "o", " ">>, !.lang3 = <<"k", "o", "r">>],
      [NoArgs EXCEPT !.date_entered = Date241231, !.date1 = <<"9", "9">>] }

NoCallArg ==
    [line |-> PyNone,
     rec  |-> [leader |-> [bytes |-> FALSE, text |-> LeaderText],
               fields |-> <<>>, pos |-> <<>>],
     args |-> NoArgs]

\* the calls that may be made on record r
CallsOn(r) ==
    {[fn |-> "parse", arg |-> [NoCallArg EXCEPT !.line = l],
      pc |-> "start", result |-> NoneV] : l \in ConcLines}
    \cup {[fn |-> "serialize", arg |-> [NoCallArg EXCEPT !.rec = r],
           pc |-> "start", result |-> NoneV]}
    \cup {[fn |-> "build008", arg |-> [NoCallArg EXCEPT !.args = a],
           pc |-> "start", result |-> NoneV] : a \in ConcArgs008}

InitConc ==
    /\ upstream = <<>>
    /\ out = <<>>
    /\ rec \in ConcRecords
    /\ calls \in [Calls -> CallsOn(rec)]
    /\ frames = [c \in Calls |-> NoLocals]
    /\ mrk = NoneV
    /\ line = PyNone
    /\ idx = 0
    /\ field = NoField
    /\ args = NoArgs
    /\ body = NoBody
    /\ pc = "calls"

NextConc ==
    \E c \in Calls :
        \/ ParseBegin(c) \/ ParseScan(c) \/ ParseEnd(c)
        \/ SerBegin(c) \/ SerField(c) \/ SerIterBegin(c) \/ SerIterNext(c)
        \/ SerEnd(c)
        \/ B8Begin(c) \/ B8End(c)

SpecConc == InitConc /\ [][NextConc]_vars

-----------------------------------------------------------------------------
(* generate_all_oneclick: the pipeline of core_exporter.py and the original
   one kept in utils.py, on the same results of the lookups *)

\* a str or None that is not empty
Truthy(x) == x # NoneV /\ x # <<>>

StartsWith(x, prefix) ==
    Len(x) >= Len(prefix) /\ SubSeq(x, 1, Len(prefix)) = prefix

\* prefix in x
Contains(x, prefix) ==
    \E k \in 1..(Len(x) - Len(prefix) + 1) :
        SubSeq(x, k, k + Len(prefix) - 1) = prefix

\* mrk_str_to_field of a str or None
Parse(x) == mrk_str_to_field(IF x = NoneV THEN PyNone ELSE PyStr(x))

\* "=TAG  "
TagHead(tag) == <<"=">> \o tag \o <<" ", " ">>

Tag041 == <<"0", "4", "1">>
Tag546 == <<"5", "4", "6">>
Tag020 == <<"0", "2", "0">>
Tag056 == <<"0", "5", "6">>
Tag007 == <<"0", "0", "7">>

\* _as_mrk_041, _as_mrk_546: the text as it is when it starts with "=TAG",
\* else f"=TAG  \\\\{s}"
AsMrk(tag, x) ==
    IF ~Truthy(x) THEN NoneV
    ELSE IF StartsWith(x, <<"=">> \o tag) THEN x
    ELSE TagHead(tag) \o <<"\\", "\\">> \o x

\* stands for the character that opens the error text of get_kormarc_tags
ErrorMark == "!"

\* re.fullmatch(r"\d{1,3}", kdc_code)
IsKdc(x) == IsDigitStr(x) /\ Len(x) <= 3

\* f"=056  \\\\$a{kdc_code}$26" if kdc_code else None
Tag056Line(kdc_code) ==
    IF ~Truthy(kdc_code) THEN NoneV
    ELSE TagHead(Tag056) \o <<"\\", "\\", "$", "a">> \o kdc_code \o <<"$", "2", "6">>

\* f"=020  1\\$a{set_isbn} (set)"
SetIsbnLine(set_isbn) ==
    TagHead(Tag020) \o <<"1", "\\", "$", "a">> \o set_isbn \o <<" ", "(", "s", "e", "t", ")">>

Piece(f, m) == [f |-> f, m |-> m]

\* variant: the pair is appended whatever it holds
AddPieceAlways(pieces, f, m) == Append(pieces, Piece(f, m))

\* add_piece: if field and mrk: pieces.append((field, mrk))
add_piece(pieces, f, m) ==
    IF f # NoField /\ Truthy(m) THEN Append(pieces, Piece(f, m)) ELSE pieces

\* if f: pieces.append((f, m))
AppendIfField(pieces, f, m) ==
    IF f # NoField THEN Append(pieces, Piece(f, m)) ELSE pieces

RECURSIVE AddParsed(_, _)
\* for m in lines: ff = mrk_str_to_field(m); if ff: add_piece(ff, m)
AddParsed(pieces, lines) ==
    IF Len(lines) = 0 THEN pieces
    ELSE AddParsed(add_piece(pieces, Parse(lines[1]), lines[1]), Tail(lines))

\* for m in lines: pieces.append((mrk_str_to_field(m), m))
AppendAll(pieces, lines) ==
    pieces \o [k \in 1..Len(lines) |-> Piece(Parse(lines[k]), lines[k])]

\* str() of a small count
CountStr(n) ==
    IF n < 10 THEN <<CHOOSE d \in Digits : DigitVal(d) = n>> ELSE <<"1", "0", "+">>

\* variant: the pieces are put in tag order first
OutcomeByTag(pieces, meta) ==
    LET sorted == SortSeq(pieces, LAMBDA a, b : IntOf(SubSeq(a.m, 2, 4)) < IntOf(SubSeq(b.m, 2, 4)))
    IN  [st     |-> "ok",
         fields |-> [k \in 1..Len(sorted) |-> sorted[k].f],
         mrk    |-> Join([k \in 1..Len(sorted) |-> sorted[k].m], <<"\n">>),
         meta   |-> meta]

\* what a call returns: the fields added to the record (None included), the
\* text, the meta without its debug lines
Outcome(pieces, meta) ==
    [st     |-> "ok",
     fields |-> [k \in 1..Len(pieces) |-> pieces[k].f],
     mrk    |-> Join([k \in 1..Len(pieces) |-> pieces[k].m], <<"\n">>),
     meta   |-> meta]

\* an exception of a lookup leaves the call
LookupError == [st |-> "raise", fields |-> <<>>, mrk |-> <<>>, meta |-> {}]

NotRun == [st |-> "none", fields |-> <<>>, mrk |-> <<>>, meta |-> {}]

\* marc_rec.as_marc() reads as_marc of every added field: None has none
AsMarcError == [st |-> "raise_as_marc", fields |-> <<>>, mrk |-> <<>>, meta |-> {}]

\* for f, _ in pieces: marc_rec.add_field(f), then marc_rec.as_marc()
OriginalOutcome(pieces, meta) ==
    IF \E k \in 1..Len(pieces) : pieces[k].f = NoField
    THEN AsMarcError
    ELSE Outcome(pieces, meta)

\* the pieces every run starts with: 008 and 007, built as fields directly
FirstPieces(u) ==
    <<Piece(ControlField(Tag008, u.data_008), TagHead(Tag008) \o u.data_008),
      Piece(ControlField(Tag007, <<"t", "a">>), TagHead(Tag007) \o <<"t", "a">>)>>

\* the values both metas take from the lookups as they are
CommonMeta(u) ==
    {<<"Candidates", u.candidates>>, <<"020", u.tag_020>>, <<"653", u.tag_653>>,
     <<"Publisher_raw", u.publisher_raw>>, <<"Place_display", u.place_display>>,
     <<"CountryCode_008", u.country_code>>}

\* generate_all_oneclick of core_exporter.py
generate_all_oneclick(u) ==
    LET tag_041_text ==
            IF u.tags_raise THEN NoneV
            ELSE IF Truthy(u.tag_041_text) /\ u.tag_041_text[1] = ErrorMark THEN NoneV
            ELSE u.tag_041_text
        tag_546_text ==
            IF u.tags_raise THEN NoneV
            ELSE IF Truthy(u.tag_546_text) /\ u.tag_546_text[1] = ErrorMark THEN NoneV
            ELSE u.tag_546_text
        kdc_code == IF Truthy(u.kdc_code) /\ ~IsKdc(u.kdc_code) THEN NoneV ELSE u.kdc_code
        tag_056  == Tag056Line(kdc_code)
        p1  == add_piece(FirstPieces(u), Parse(u.tag_020), u.tag_020)
        p2  == IF Truthy(u.set_isbn)
               THEN add_piece(p1, Parse(SetIsbnLine(u.set_isbn)), SetIsbnLine(u.set_isbn))
               ELSE p1
        p3  == IF Truthy(tag_041_text) /\ Contains(tag_041_text, <<"$", "h">>)
               THEN add_piece(p2, Parse(AsMrk(Tag041, tag_041_text)),
                              AsMrk(Tag041, tag_041_text))
               ELSE p2
        p4  == add_piece(p3, IF Truthy(tag_056) THEN Parse(tag_056) ELSE NoField, tag_056)
        p5  == add_piece(p4, Parse(u.marc245), u.marc245)
        p6  == add_piece(p5, Parse(u.marc246), u.marc246)
        p7  == add_piece(p6, Parse(u.tag_260), u.tag_260)
        p8  == add_piece(p7, u.f_300, u.tag_300)
        p9  == add_piece(p8, Parse(u.tag_490), u.tag_490)
        p10 == IF Truthy(tag_546_text)
               THEN add_piece(p9, Parse(AsMrk(Tag546, tag_546_text)),
                              AsMrk(Tag546, tag_546_text))
               ELSE p9
        p11 == add_piece(p10, IF Truthy(u.tag_653) THEN Parse(u.tag_653) ELSE NoField,
                         u.tag_653)
        p12 == AddParsed(AddParsed(AddParsed(p11, u.mrk_700), u.mrk_90010), u.mrk_940)
        p13 == add_piece(p12, Parse(u.tag_830), u.tag_830)
        p14 == add_piece(p13, Parse(u.tag_950), u.tag_950)
        pieces == add_piece(p14, IF Truthy(u.tag_049) THEN Parse(u.tag_049) ELSE NoField,
                            u.tag_049)
        count700 == Cardinality({k \in 1..Len(pieces) :
                                    StartsWith(pieces[k].m, <<"=", "7", "0", "0">>)})
    IN  Outcome(pieces,
                CommonMeta(u) \cup
                {<<"TitleA", u.a_out>>,
                 <<"has_n", IF u.n_flag THEN <<"T">> ELSE <<"F">>>>,
                 <<"700_count", CountStr(count700)>>,
                 <<"90010_count", CountStr(Len(u.mrk_90010))>>,
                 <<"940_count", CountStr(Len(u.mrk_940))>>,
                 <<"041", tag_041_text>>, <<"546", tag_546_text>>,
                 <<"056", tag_056>>, <<"kdc_code", kdc_code>>,
                 <<"price_for_950", u.price>>, <<"pubyear", u.pubyear>>,
                 <<"Publisher_resolved", u.resolved_publisher>>,
                 <<"Bundle_source", u.bundle_source>>,
                 <<"debug_lines", u.debug_lines>>})

\* the original generate_all_oneclick, utils.py line 5263
original_generate_all_oneclick(u) ==
    IF u.tags_raise THEN LookupError
    ELSE
    LET tag_056 == Tag056Line(u.kdc_code)
        p1  == AppendIfField(FirstPieces(u), Parse(u.tag_020), u.tag_020)
        p2  == IF Truthy(u.set_isbn)
               THEN Append(p1, Piece(Parse(SetIsbnLine(u.set_isbn)), SetIsbnLine(u.set_isbn)))
               ELSE p1
        p3  == IF Truthy(u.tag_041_text)
               THEN Append(p2, Piece(Parse(u.tag_041_text), u.tag_041_text))
               ELSE p2
        p4  == AppendIfField(p3, Parse(tag_056), tag_056)
        p5  == AppendIfField(p4, Parse(u.marc245), u.marc245)
        p6  == AppendIfField(p5, Parse(u.marc246), u.marc246)
        p7  == AppendIfField(p6, Parse(u.tag_260), u.tag_260)
        p8  == AppendIfField(p7, u.f_300, u.tag_300)
        p9  == AppendIfField(p8, Parse(u.tag_490), u.tag_490)
        p10 == IF Truthy(u.tag_546_text)
               THEN Append(p9, Piece(Parse(u.tag_546_text), u.tag_546_text))
               ELSE p9
        p11 == AppendIfField(p10, IF Truthy(u.tag_653) THEN Parse(u.tag_653) ELSE NoField,
                             u.tag_653)
        p12 == AppendAll(AppendAll(AppendAll(p11, u.mrk_700), u.mrk_90010), u.mrk_940)
        p13 == AppendIfField(p12, Parse(u.tag_830), u.tag_830)
        p14 == AppendIfField(p13, Parse(u.tag_950), u.tag_950)
        pieces == AppendIfField(p14, Parse(u.tag_049), u.tag_049)
        mrk_strings == [k \in 1..Len(pieces) |-> pieces[k].m]
    IN  OriginalOutcome(pieces,
                CommonMeta(u) \cup
                {<<"041", u.tag_041_text>>, <<"546", u.tag_546_text>>,
                 <<"056", tag_056>>, <<"kdc_code", u.kdc_code>>,
                 <<"mrk_preview",
                   Join(SubSeq(mrk_strings, 1,
                               IF Len(mrk_strings) < 12 THEN Len(mrk_strings) ELSE 12),
                        <<"\n">>)>>,
                 <<"debug_lines", u.debug_lines>>})

\* a data-field line with blank indicators and one subfield a
LineOf(tag, value) == TagHead(tag) \o <<"\\", "\\", "$", "a">> \o value

Tag700 == <<"7", "0", "0">>

\* what the lookups and the field builders may return for one ISBN
Upstreams ==
    [tags_raise   : BOOLEAN,
     tag_041_text : { NoneV,
                      <<"0", "4", "1", " ", "$", "a", "k", "o", "r">>,
                      <<"0", "4", "1", " ", "$", "a", "k", "o", "r", " ",
                        "$", "h", "e", "n", "g">>,
                      TagHead(Tag041) \o <<"0", "\\", "$", "a", "k", "o", "r",
                                           "$", "h", "e", "n", "g">>,
                      <<ErrorMark, "e">> },
     tag_546_text : { <<>>, <<"t", "x", "t">>, <<"$", "a", "t", "x", "t">> },
     set_isbn     : { <<>>, <<"9", "7">> },
     tag_020      : { NoneV, LineOf(Tag020, <<"9", "7">>) },
     mrk_700      : { <<>>, <<LineOf(Tag700, <<"n">>)>>, <<LineOf(Tag700, <<>>)>> },
     kdc_code     : { NoneV, <<"8", "1", "3">>, <<"8", "1", "x">> },
     tag_653      : { NoneV, LineOf(<<"6", "5", "3">>, <<"k">>),
                      LineOf(<<"6", "5", "3">>, <<"k", "\n", "w">>) },
     tag_049      : { LineOf(<<"0", "4", "9">>, <<"r">>) },
     marc245      : { LineOf(Tag245, <<"t">>) },
     marc246      : { NoneV, LineOf(<<"2", "4", "6">>, <<"t">>) },
     tag_260      : { LineOf(<<"2", "6", "0">>, <<"p">>) },
     tag_300      : { LineOf(<<"3", "0", "0">>, <<"c">>) },
     f_300        : { DataField(<<"3", "0", "0">>, <<Blank, Blank>>,
                                <<Subfield(<<"a">>, <<"c">>)>>) },
     tag_490      : { LineOf(<<"4", "9", "0">>, <<"s">>) },
     tag_830      : { LineOf(<<"8", "3", "0">>, <<"s">>) },
     tag_950      : { LineOf(<<"9", "5", "0">>, <<"w">>) },
     mrk_90010    : { <<>>, <<TagHead(<<"9", "0", "0">>) \o <<"1", "0", "$", "a", "n">>>> },
     mrk_940      : { <<LineOf(<<"9", "4", "0">>, <<"t">>)>> },
     data_008     : { build_008_kormarc_bk(
                          [NoArgs EXCEPT !.date_entered = Date241231,
                                         !.date1 = Year2024,
                                         !.country3 = <<"u", "l", "k">>,
                                         !.lang3 = <<"k", "o", "r">>]).text },
     a_out        : { <<"t">> },
     n_flag       : { FALSE },
     candidates   : { <<>> },
     publisher_raw : { <<"p">> },
     place_display : { <<"s">> },
     country_code  : { <<"u", "l", "k">> },
     resolved_publisher : { <<"p">> },
     bundle_source : { <<"d", "b">> },
     price        : { <<"1">> },
     pubyear      : { Year2024 },
     debug_lines  : { <<>> }]

\* gen_new(isbn, use_ai_940=False)
RunTruePatch ==
    /\ out.new = NotRun
    /\ out' = [out EXCEPT !.new = generate_all_oneclick(upstream)]
    /\ UNCHANGED <<rec, mrk, line, idx, field, args, body, pc, calls, frames, upstream>>

\* gen_orig(isbn, use_ai_940=False)
RunOriginal ==
    /\ out.orig = NotRun
    /\ out' = [out EXCEPT !.orig = original_generate_all_oneclick(upstream)]
    /\ UNCHANGED <<rec, mrk, line, idx, field, args, body, pc, calls, frames, upstream>>

InitPipe ==
    /\ upstream \in Upstreams
    /\ out = [new |-> NotRun, orig |-> NotRun]
    /\ rec = EmptyRecord([bytes |-> FALSE, text |-> LeaderText])
    /\ mrk = NoneV
    /\ line = PyNone
    /\ idx = 0
    /\ field = NoField
    /\ args = NoArgs
    /\ body = NoBody
    /\ pc = "pipelines"
    /\ calls = <<>>
    /\ frames = <<>>

NextPipe == RunTruePatch \/ RunOriginal

SpecPipe == InitPipe /\ [][NextPipe]_vars

\* save_mrc_mrk: the text written to the .mrk file and returned
save_mrc_mrk(record) == record_to_mrk_from_record(record)

\* run_and_export of core_exporter.py on what generate_all_oneclick returned
run_and_export(g) ==
    IF g.st # "ok" THEN g
    ELSE LET record == [leader |-> [bytes |-> FALSE, text |-> LeaderText],
                        fields |-> g.fields]
             mrk_text_from_file == save_mrc_mrk(record)
         IN  [st |-> "ok", fields |-> g.fields, mrk |-> mrk_text_from_file,
              meta |-> g.meta]

\* result = run_and_export(isbn, ...)
RunAndExport ==
    /\ pc = "export"
    /\ out.exp = NotRun
    /\ out' = [out EXCEPT !.exp = run_and_export(generate_all_oneclick(upstream))]
    /\ pc' = "exported"
    /\ UNCHANGED <<rec, mrk, line, idx, field, args, body, calls, frames, upstream>>

InitExport ==
    /\ upstream \in {u \in Upstreams :
                        /\ ~u.tags_raise /\ u.marc246 = NoneV /\ u.mrk_90010 = <<>>
                        /\ u.kdc_code # <<"8", "1", "x">>}
    /\ out = [exp |-> NotRun]
    /\ rec = EmptyRecord([bytes |-> FALSE, text |-> LeaderText])
    /\ mrk = NoneV
    /\ line = PyNone
    /\ idx = 0
    /\ field = NoField
    /\ args = NoArgs
    /\ body = NoBody
    /\ pc = "export"
    /\ calls = <<>>
    /\ frames = <<>>

NextExport == RunAndExport

SpecExport == InitExport /\ [][NextExport]_vars

-----------------------------------------------------------------------------
(* handle_ui: the jobs of one submitted form *)

MaxRows == 2    \* rows of an uploaded CSV

\* need_cols = {"ISBN", "등록기호", "등록번호", "별치기호"}
need_cols == {"ISBN", "reg_mark", "reg_no", "copy_symbol"}

\* list(need_cols): the elements of a set of str in the order of one process,
\* which the hash seed of the process decides
ListOrders == {o \in [1..4 -> need_cols] : \A a, b \in 1..4 : a # b => o[a] # o[b]}

\* the rows of a CSV that has the four columns, dtype=str, NaN filled with ""
CsvRows ==
    [ISBN : {"i1", "i2"}, reg_mark : {"m1"}, reg_no : {"n1"}, copy_symbol : {"", "c1"}]

\* what the user submits: the text of the ISBN box and the uploaded file
Forms ==
    [single_isbn : {<<>>, <<" ">>, <<"9", " ">>},
     file        : {"none", "unreadable", "columns missing", "ok"},
     rows        : UNION {[1..n -> CsvRows] : n \in 0..MaxRows}]

\* df[list(need_cols)].values.tolist(): each row in the order of the list
SelectedRows(rows, order) ==
    [k \in 1..Len(rows) |-> [c \in 1..4 |-> rows[k][order[c]]]]

\* lines 103-125 of handle_ui: the jobs, or the early return
Submit ==
    /\ pc = "ui_submitted"
    /\ LET single_isbn == Strip(upstream.form.single_isbn)
           first == IF single_isbn # <<>>
                    THEN << [c \in 1..4 |-> IF c = 1 THEN single_isbn ELSE ""] >>
                    ELSE <<>>
           jobs  == IF upstream.form.file = "ok"
                    THEN first \o SelectedRows(upstream.form.rows, upstream.order)
                    ELSE first
       IN  IF upstream.form.file \in {"unreadable", "columns missing"} \/ jobs = <<>>
           THEN /\ pc' = "ui_returned"
                /\ UNCHANGED out
           ELSE /\ pc' = "ui_running"
                /\ out' = [out EXCEPT !.jobs = jobs]
    /\ UNCHANGED <<rec, mrk, line, idx, field, args, body, calls, frames, upstream>>

\* one round of the for loop, lines 134-148
RunJob ==
    /\ pc = "ui_running"
    /\ Len(out.calls) < Len(out.jobs)
    /\ LET job  == out.jobs[Len(out.calls) + 1]
           call == [isbn |-> job[1], reg_mark |-> job[2], reg_no |-> job[3],
                    copy_symbol |-> job[4]]
       IN  out' = [out EXCEPT !.calls = Append(@, call),
                              !.results = Append(@, <<job[1], call>>)]
    /\ UNCHANGED <<rec, mrk, line, idx, field, args, body, pc, calls, frames, upstream>>

\* the loop is over, lines 150-161
Finish ==
    /\ pc = "ui_running"
    /\ Len(out.calls) = Len(out.jobs)
    /\ pc' = "ui_finished"
    /\ UNCHANGED <<rec, mrk, line, idx, field, args, body, calls, frames, upstream, out>>

InitUI ==
    /\ upstream \in [form : Forms, order : ListOrders]
    /\ out = [jobs |-> <<>>, calls |-> <<>>, results |-> <<>>]
    /\ rec = EmptyRecord([bytes |-> FALSE, text |-> LeaderText])
    /\ mrk = NoneV
    /\ line = PyNone
    /\ idx = 0
    /\ field = NoField
    /\ args = NoArgs
    /\ body = NoBody
    /\ pc = "ui_submitted"
    /\ calls = <<>>
    /\ frames = <<>>

NextUI == Submit \/ RunJob \/ Finish

SpecUI == InitUI /\ [][NextUI]_vars

-----------------------------------------------------------------------------
(* the debug log of utils.py: list objects, the global that names one *)

MaxLogCalls == 2    \* calls of generate_all_oneclick in a row
MaxLogLines == 3    \* lines logged in all

Messages == {"a", "b"}

\* variant: the list itself goes into meta
SameList(lists, id) == [lists |-> lists, id |-> id]

\* CURRENT_DEBUG_LINES.copy(): a new list object with the same lines
CopyList(lists, id) == [lists |-> Append(lists, lists[id]), id |-> Len(lists) + 1]

\* CURRENT_DEBUG_LINES.append(text) on the list the global names now
AppendLine(text) ==
    /\ idx < MaxLogLines
    /\ idx' = idx + 1
    /\ out' = [out EXCEPT !.lists[out.current] = Append(@, text),
                          !.now = IF pc = "log_call" THEN Append(@, text) ELSE @]
    /\ UNCHANGED <<rec, mrk, line, field, args, body, pc, calls, frames, upstream>>

\* dbg(msg)
dbg(msg) == AppendLine(<<msg>>)

\* dbg_err(msg)
dbg_err(msg) == AppendLine(<<"[ERROR] ", msg>>)

\* generate_all_oneclick starts: CURRENT_DEBUG_LINES = []
CallBegin ==
    /\ pc = "log_idle"
    /\ Len(out.metas) < MaxLogCalls
    /\ out' = [out EXCEPT !.lists = Append(@, <<>>),
                          !.current = Len(out.lists) + 1,
                          !.now = <<>>]
    /\ pc' = "log_call"
    /\ UNCHANGED <<rec, mrk, line, idx, field, args, body, calls, frames, upstream>>

\* generate_all_oneclick returns meta with "debug_lines"
CallReturn ==
    /\ pc = "log_call"
    /\ LET c == CopyList(out.lists, out.current)
       IN  out' = [out EXCEPT !.lists = c.lists,
                              !.metas = Append(@, c.id),
                              !.during = Append(@, out.now)]
    /\ pc' = "log_idle"
    /\ UNCHANGED <<rec, mrk, line, idx, field, args, body, calls, frames, upstream>>

InitLog ==
    /\ out = [lists |-> << <<>> >>, current |-> 1, metas |-> <<>>,
              during |-> <<>>, now |-> <<>>]
    /\ upstream = <<>>
    /\ rec = EmptyRecord([bytes |-> FALSE, text |-> LeaderText])
    /\ mrk = NoneV
    /\ line = PyNone
    /\ idx = 0
    /\ field = NoField
    /\ args = NoArgs
    /\ body = NoBody
    /\ pc = "log_idle"
    /\ calls = <<>>
    /\ frames = <<>>

NextLog ==
    \/ CallBegin
    \/ CallReturn
    \/ \E msg \in Messages : dbg(msg)
    \/ \E msg \in Messages : dbg_err(msg)

SpecLog == InitLog /\ [][NextLog]_vars

-----------------------------------------------------------------------------
(* properties of the codec *)

\* the one field of a record serialized and parsed back, and its line
TheField == rec.fields[1]
RoundTripped == pc = "parsed" /\ idx = 2 /\ Len(rec.fields) = 1

HasNoChar(s, c) == \A k \in 1..Len(s) : s[k] # c

\* a data field as the data model has it: a 3-digit tag >= 10, two
\* indicators, each a blank or a code character (the backslash is how the
\* text writes a blank, not an indicator), one or more subfields, each a
\* one-character code and a non-empty value
ValidDataField(f) ==
    /\ f.kind = "data" /\ f.form = "list"
    /\ Len(f.tag) = 3 /\ IsDigitStr(f.tag) /\ IntOf(f.tag) >= 10
    /\ Len(f.ind) = 2
    /\ \A k \in 1..2 :
          f.ind[k] # NoneV /\ Len(f.ind[k]) = 1 /\ f.ind[k] # <<"\\">>
    /\ Len(f.subs) >= 1
    /\ \A k \in 1..Len(f.subs) :
          IsSubfield(f.subs[k]) /\ Len(f.subs[k][1]) = 1 /\ Len(f.subs[k][2]) >= 1

\* what the text format can carry: no "$" in a value, no whitespace at
\* either end of a value, no line feed anywhere
CarriedDataField(f) ==
    /\ \A k \in 1..2 : f.ind[k] # <<"\n">>
    /\ \A k \in 1..Len(f.subs) :
          /\ f.subs[k][1] # <<"\n">>
          /\ HasNoChar(f.subs[k][2], "$")
          /\ HasNoChar(f.subs[k][2], "\n")
          /\ Strip(f.subs[k][2]) = f.subs[k][2]

\* C1 as stated: every valid data field comes back equal from
\* mrk_str_to_field applied to the line record_to_mrk_from_record wrote for it.
C1_AsStated ==
    (RoundTripped /\ ValidDataField(TheField)) => field = TheField

\* C1: a valid data field comes back equal (same tag, indicators, subfield
\* codes and values) when no indicator is a backslash, no value holds a "$"
\* or starts or ends with whitespace, and nothing in it is a line feed.
C1_DataRoundTrip ==
    (RoundTripped /\ ValidDataField(TheField) /\ CarriedDataField(TheField))
        => field = TheField

C1_Witness ==
    /\ RoundTripped /\ ValidDataField(TheField) /\ CarriedDataField(TheField)
    /\ Len(TheField.subs) = 2
    /\ TheField.ind = <<Blank, <<"1">>>>
    /\ field = TheField

\* a control field as the data model has it: tag below 10, data not empty
ValidControlField(f) ==
    /\ f.kind = "control"
    /\ Len(f.tag) = 3 /\ IsDigitStr(f.tag) /\ IntOf(f.tag) < 10
    /\ f.data # NoneV /\ Len(f.data) >= 1

\* C2 as stated: every control field with non-empty data, of any length and
\* with or without blanks at its ends, comes back with exactly that data.
C2_AsStated ==
    (RoundTripped /\ ValidControlField(TheField))
        => field = ControlField(TheField.tag, TheField.data)

\* C2: a control field comes back with tag t and data exactly d when d has
\* two or more characters, no whitespace at either end and no line feed.
C2_ControlRoundTrip ==
    (/\ RoundTripped /\ ValidControlField(TheField)
     /\ Len(TheField.data) >= 2
     /\ Strip(TheField.data) = TheField.data
     /\ HasNoChar(TheField.data, "\n"))
        => field = ControlField(TheField.tag, TheField.data)

C2_Witness ==
    /\ RoundTripped /\ ValidControlField(TheField)
    /\ TheField.data = <<"a", " ", "a">>
    /\ field = ControlField(TheField.tag, TheField.data)

\* the argument has a tag attribute that is not None and a data or a
\* subfields attribute, and reading them does not raise
FieldLikeArgument ==
    line.kind = "object" /\ line.tagAttr /\ line.payloadAttr /\ ~line.attrRaises

\* C5: mrk_str_to_field returns a field or None for None, for every string
\* and for every other object, the field being the argument itself when that
\* is field-like; no exception leaves it.
C5_ParserTotal ==
    (pc \in {"returned", "parsed"}) =>
        \/ field.kind \in {"None", "control", "data"}
        \/ FieldLikeArgument /\ field = line.fld

C5_Witness ==
    /\ pc = "returned"
    /\ line.kind = "object" /\ line.strRaises /\ line.attrRaises
    /\ field = NoField

\* a string of the data-field shape: "=", three digits, two blanks, two
\* indicator characters, then the tail
HasDataShape(s) ==
    /\ Len(s) >= 8 /\ s[1] = "="
    /\ \A k \in 2..4 : s[k] \in Digits
    /\ s[5] = " " /\ s[6] = " "

\* C6: None is returned for every string that, trimmed, does not start with
\* "=", or has fewer than 8 characters, or has the data-field shape with a
\* tag >= 10 and no "$" in its tail.
C6_Rejections ==
    (pc = "returned" /\ line.kind = "str") =>
        LET s == Strip(line.text)
        IN  (\/ Len(s) = 0
             \/ s[1] # "="
             \/ Len(s) < 8
             \/ /\ HasDataShape(s)
                /\ IntOf(SubSeq(s, 2, 4)) >= 10
                /\ HasNoChar(From(s, 8), "$"))
            => field = NoField

C6_Witness ==
    /\ pc = "returned" /\ line.kind = "str"
    /\ HasDataShape(Strip(line.text))
    /\ IntOf(SubSeq(Strip(line.text), 2, 4)) >= 10
    /\ Len(Strip(line.text)) = 10
    /\ HasNoChar(From(Strip(line.text), 8), "$")
    /\ field = NoField

\* C7 as stated: the example line parses to indicators [blank, "1"], and
\* that field is written with a backslash first and "1" second.
C7_AsStated ==
    /\ (pc = "returned" /\ line = PyStr(ExampleLine))
          => field = ExampleFieldAsWritten
    /\ (pc = "serialized" /\ rec.fields = <<ExampleFieldAsWritten>>)
          => MrkLines[2] = ExampleLineAsWritten

\* C7: the example line  =100  1\$aHong, Gildong  parses to tag 100,
\* indicators ["1", blank] and the one subfield (a, "Hong, Gildong"), and
\* serializing that field gives the same line back, "1" first and the
\* backslash second.
C7_Example ==
    /\ (pc \in {"returned", "parsed"} /\ line = PyStr(ExampleLine))
          => field = ExampleField
    /\ (pc \in {"serialized", "parsed"} /\ rec.fields = <<ExampleField>>)
          => MrkLines[2] = ExampleLine

C7_Witness ==
    /\ RoundTripped
    /\ rec.fields = <<ExampleField>>
    /\ line = PyStr(ExampleLine)
    /\ field = ExampleField

\* the characters written for the two indicators of the first field
WrittenIndicator(k) == mrk[Len(LeaderLine(rec.leader)) + 1 + 6 + k]

StoredBlank(f, k) ==
    f.ind = <<>> \/ f.ind[k] = <<>> \/ f.ind[k] = NoneV \/ f.ind[k] = Blank

\* C8: reading, a backslash indicator becomes a blank and any other
\* character is kept; writing, a blank, empty or missing indicator becomes a
\* backslash and any other is kept; each of the two positions on its own.
C8_BlankBackslash ==
    /\ (pc \in {"returned", "parsed"} /\ line.kind = "str" /\ field.kind = "data")
          => LET s == Strip(line.text)
             IN  \A k \in 1..2 :
                    field.ind[k] = (IF s[6 + k] = "\\" THEN Blank ELSE <<s[6 + k]>>)
    /\ (pc \in {"serialized", "parsed"} /\ Len(rec.fields) = 1
            /\ TheField.kind = "data")
          => \A k \in 1..2 :
                WrittenIndicator(k) =
                    (IF StoredBlank(TheField, k) THEN "\\" ELSE TheField.ind[k][1])

C8_Witness ==
    /\ RoundTripped /\ TheField.kind = "data"
    /\ TheField.ind = <<<<"1">>, Blank>>
    /\ WrittenIndicator(1) = "1" /\ WrittenIndicator(2) = "\\"
    /\ field.kind = "data" /\ field.ind = <<<<"1">>, Blank>>

\* C9 as stated: after any n appends the text has n + 1 lines, the leader
\* line and then the line of each field in append order.
C9_AsStated ==
    (pc = "serialized") =>
        /\ Len(MrkLines) = Len(rec.fields) + 1
        /\ MrkLines[1] = LeaderLine(rec.leader)
        /\ \A i \in 1..Len(rec.fields) : MrkLines[i + 1] = FieldLine(rec.fields[i])

NoLineFeedWritten ==
    /\ HasNoChar(rec.leader.text, "\n")
    /\ \A i \in 1..Len(rec.fields) : HasNoChar(FieldLine(rec.fields[i]), "\n")

\* a list of subfields that starts with a Subfield object holds nothing else
Unmixed(f) ==
    (f.form = "list" /\ Len(f.subs) > 0 /\ IsSubfield(f.subs[1]))
        => \A k \in 1..Len(f.subs) : IsSubfield(f.subs[k])

\* C9: after n appends of fields whose text holds no line feed (and whose
\* list of subfields, when it starts with a Subfield object, holds only such
\* objects), the text has exactly n + 1 lines: "=LDR  " and the leader, then
\* the line of the i-th appended field as line i + 1; nothing is sorted,
\* merged or dropped.
C9_LinesInAppendOrder ==
    (/\ pc \in {"serialized", "parsed", "raised"}
     /\ NoLineFeedWritten
     /\ \A i \in 1..Len(rec.fields) : Unmixed(rec.fields[i])) =>
        /\ pc # "raised"
        /\ Len(MrkLines) = Len(rec.fields) + 1
        /\ MrkLines[1] = <<"=", "L", "D", "R", " ", " ">> \o rec.leader.text
        /\ \A i \in 1..Len(rec.fields) :
              /\ MrkLines[i + 1] = FieldLine(rec.fields[i])
              /\ SubSeq(MrkLines[i + 1], 2, 4) = rec.fields[i].tag

C9_Witness ==
    /\ pc = "serialized" /\ NoLineFeedWritten
    /\ Len(rec.fields) = MaxFields
    /\ rec.fields[1] = rec.fields[2]
    /\ Len(MrkLines) = MaxFields + 1

-----------------------------------------------------------------------------
(* properties of the 008 body *)

GivenDatesValid ==
    /\ Len(args.date_entered) = 6
    /\ \A k \in 1..Len(args.date_entered) : args.date_entered[k] \in Digits
    /\ Len(args.date1) = 4

\* positions a..b of the body, counted from 0
At(a, b) == SubSeq(body.text, a + 1, b + 1)

\* C3: for valid date_entered and date1 and any other arguments the body
\* has exactly 40 characters, "0" at 29 and 30, and "0" or "1" at 31.
C3_FixedWidth ==
    (pc = "built" /\ GivenDatesValid) =>
        /\ body.st = "ok"
        /\ Len(body.text) = 40
        /\ At(29, 29) = <<"0">> /\ At(30, 30) = <<"0">>
        /\ At(31, 31) \in {<<"0">>, <<"1">>}

C3_Witness ==
    /\ pc = "built" /\ GivenDatesValid
    /\ args.has_index = <<"1", "0">>
    /\ args.lang3 = <<"e", "n", "g", "x">>
    /\ Len(body.text) = 40 /\ At(31, 31) = <<"0">>

\* C4: a date_entered that is not 6 digits, or a date1 that is not 4
\* characters, ends the call with the validation error and no body.
C4_Validation ==
    (pc = "built" /\ ~GivenDatesValid) =>
        body.st = "ValueError" /\ body.text = <<>>

C4_Witness ==
    /\ pc = "built"
    /\ args.date_entered = <<"2", "4", "1", "2", "3", "x">>
    /\ args.date1 = Year2024
    /\ body.st = "ValueError"

\* an argument cut to w characters, then filled with blanks on the right
Fitted(arg, default, w) ==
    LET v == IF arg = Omitted THEN default ELSE IF arg = NoneV THEN <<>> ELSE arg
    IN  [i \in 1..w |-> IF i <= Len(v) THEN v[i] ELSE " "]

\* C10: every component sits at its fixed position, cut to its width and
\* then filled with blanks on the right, with the defaults of the signature.
C10_Layout ==
    (pc = "built" /\ GivenDatesValid) =>
        /\ body.st = "ok"
        /\ At(0, 5)   = args.date_entered
        /\ At(6, 6)   = Fitted(args.type_of_date, <<"s">>, 1)
        /\ At(7, 10)  = args.date1
        /\ At(11, 14) = Fitted(args.date2, <<>>, 4)
        /\ At(15, 17) = Fitted(args.country3, <<>>, 3)
        /\ At(18, 21) = Fitted(args.illus4, <<>>, 4)
        /\ At(22, 27) = <<" ", " ", " ", " ", " ", " ">>
        /\ At(28, 28) = Fitted(args.modified_record, <<" ">>, 1)
        /\ At(31, 31) = (IF args.has_index \in {<<"0">>, <<"1">>}
                            THEN args.has_index ELSE <<"0">>)
        /\ At(32, 32) = Fitted(args.cataloging_src, <<"a">>, 1)
        /\ At(33, 33) = Fitted(args.lit_form, <<" ">>, 1)
        /\ At(34, 34) = Fitted(args.bio, <<" ">>, 1)
        /\ At(35, 37) = Fitted(args.lang3, <<>>, 3)
        /\ At(38, 39) = <<" ", " ">>

C10_Witness ==
    /\ pc = "built" /\ GivenDatesValid
    /\ args.country3 = <<"k">>
    /\ args.illus4 = <<"a", "d", "o", "x", "y">>
    /\ args.type_of_date = Omitted
    /\ At(15, 17) = <<"k", " ", " ">>
    /\ At(18, 21) = <<"a", "d", "o", "x">>
    /\ At(6, 6) = <<"s">>

-----------------------------------------------------------------------------
(* properties of the parser's subfields *)

\* the stripped text of the line last parsed, and what follows its indicators
LineText == Strip(line.text)
LineTail == From(LineText, 8)

\* a data-field line: one line of text of the data shape with a tag of 10 or
\* more
IsDataLine ==
    /\ line.kind = "str" /\ HasDataShape(LineText)
    /\ HasNoChar(LineText, "\n")
    /\ IntOf(SubSeq(LineText, 2, 4)) >= 10

NoDoubleDollar(t) == \A k \in 1..(Len(t) - 1) : ~(t[k] = "$" /\ t[k + 1] = "$")

\* the pieces of a tail between its "$", each a code and a text, with the
\* pieces whose text is empty or all whitespace left out
KeptPieces(t) ==
    LET kept == SelectSeq(Tail(SplitAt(t, "$")),
                          LAMBDA g : Len(g) >= 1 /\ Strip(Tail(g)) # <<>>)
    IN  [k \in 1..Len(kept) |-> Subfield(<<kept[k][1]>>, Strip(Tail(kept[k])))]

\* C11: every data field mrk_str_to_field builds from a text has one or more
\* subfields, each with a value that is not empty and has no whitespace at
\* either end; a "$"-piece whose text is empty or all whitespace gives no
\* subfield, and when no subfield is left the result is None.
C11_NoEmptyDataField ==
    /\ (pc \in {"returned", "parsed"} /\ ~IsFieldLike(line) /\ field.kind = "data")
          => /\ Len(field.subs) >= 1
             /\ \A k \in 1..Len(field.subs) :
                   /\ field.subs[k][2] # <<>>
                   /\ Strip(field.subs[k][2]) = field.subs[k][2]
    /\ (pc = "returned" /\ IsDataLine /\ NoDoubleDollar(LineTail))
          => IF KeptPieces(LineTail) = <<>> THEN field = NoField
             ELSE field.kind = "data" /\ field.subs = KeptPieces(LineTail)

C11_Witness ==
    /\ pc = "returned" /\ IsDataLine
    /\ LineTail = <<"$", "a", " ", "$", "a", "a">>
    /\ field.kind = "data"
    /\ field.subs = <<Subfield(<<"a">>, <<"a">>)>>

\* the text written for the one field of the record, after the leader line
TheLine == From(mrk, Len(LeaderLine(rec.leader)) + 1)

\* C12: the tag alone decides the kind.  Reading an accepted line gives a
\* control field (data, no indicators, no subfields) exactly when its tag is
\* below 10, "$" in the text or not, and a data field (indicators and
\* subfields, no data) exactly when it is 10 or more.  Writing gives "=TAG  "
\* and the data for a tag below 10, and "=TAG  ", two indicator characters and
\* the subfields for any other tag.
C12_TagDiscriminates ==
    /\ (pc \in {"returned", "parsed"} /\ line.kind = "str" /\ field # NoField)
          => LET tag == SubSeq(LineText, 2, 4)
             IN  /\ field.tag = tag
                 /\ (IntOf(tag) < 10) <=> (field.kind = "control")
                 /\ (IntOf(tag) >= 10) <=> (field.kind = "data")
                 /\ field.kind = "control"
                       => field.data # <<>> /\ field.ind = <<>> /\ field.subs = <<>>
                 /\ field.kind = "data"
                       => field.data = <<>> /\ Len(field.ind) = 2 /\ field.subs # <<>>
    /\ (pc \in {"serialized", "parsed"} /\ Len(rec.fields) = 1)
          => /\ SubSeq(TheLine, 1, 6) = <<"=">> \o TheField.tag \o <<" ", " ">>
             /\ IF IntOf(TheField.tag) < 10
                THEN From(TheLine, 6) =
                        (IF TheField.data = NoneV THEN <<>> ELSE TheField.data)
                ELSE /\ Len(TheLine) >= 8
                     /\ From(TheLine, 8) = SubfieldParts(TheField)

C12_Witness ==
    /\ pc = "returned" /\ line.kind = "str"
    /\ LineText = <<"=", "0", "0", "8", " ", " ", "1", "$", "a", "1">>
    /\ field = ControlField(Tag008, <<"1", "$", "a", "1">>)

-----------------------------------------------------------------------------
(* the 008 body through the parser *)

\* C13 as stated: the line "=008  " + b parses to a control field 008 whose
\* data is exactly the 40 characters of b.
C13_AsStated ==
    (pc = "parsed008") => field = ControlField(Tag008, body.text)

\* C13: for a body b without a line feed, the line "=008  " + b parses to a
\* control field 008 whose data is b without the whitespace at its end: a
\* prefix of b of at most 38 characters that ends in a character other than
\* whitespace, the blank positions 38 and 39 being lost.
C13_BodyTrimmed ==
    (pc = "parsed008" /\ HasNoChar(body.text, "\n")) =>
        /\ field.kind = "control" /\ field.tag = Tag008
        /\ Len(field.data) \in 6..38
        /\ field.data = SubSeq(body.text, 1, Len(field.data))
        /\ ~IsSpace(field.data[Len(field.data)])
        /\ \A k \in (Len(field.data) + 1)..40 : IsSpace(body.text[k])

C13_Witness ==
    /\ pc = "parsed008"
    /\ args.lang3 = <<"k", "o", "r">>
    /\ Len(body.text) = 40 /\ At(38, 39) = <<" ", " ">>
    /\ Len(field.data) = 38
    /\ field.data = SubSeq(body.text, 1, 38)

-----------------------------------------------------------------------------
(* the representations of subfields *)

\* "$" + code + value of every item, in stored order
EmittedAll(items) ==
    Join([k \in 1..Len(items) |-> <<"$">> \o items[k][1] \o items[k][2]], <<>>)

\* the items of a flat list taken two by two
FlatPairs(flat) == [k \in 1..(Len(flat) \div 2) |-> <<flat[2 * k - 1], flat[2 * k]>>]

\* the items in front of the first one that is not a Subfield object
RECURSIVE SubfieldsInFront(_)
SubfieldsInFront(items) ==
    IF Len(items) = 0 \/ ~IsSubfield(items[1]) THEN <<>>
    ELSE <<items[1]>> \o SubfieldsInFront(Tail(items))

\* one data field was handed to record_to_mrk_from_record
OneDataField ==
    /\ pc \in {"serialized", "parsed", "raised"}
    /\ Len(rec.fields) = 1
    /\ TheField.kind = "data" /\ IntOf(TheField.tag) >= 10

\* the three representations: a list of Subfield objects, a flat list of
\* codes and values, another iterable of (code, value) pairs
IsObjectList(f) ==
    f.form = "list" /\ Len(f.subs) > 0 /\ \A k \in 1..Len(f.subs) : IsSubfield(f.subs[k])
IsFlatList(f) == f.form = "flat" /\ Len(f.subs) % 2 = 0
IsPairIterable(f) == IsIterated(f)

\* C14 as stated: in each of the three representations the call returns and
\* the line holds "$" + code + value of every stored subfield, in order.
C14_AsStated ==
    OneDataField =>
        /\ IsObjectList(TheField)
              => pc # "raised" /\ From(TheLine, 8) = EmittedAll(TheField.subs)
        /\ IsFlatList(TheField)
              => pc # "raised" /\ From(TheLine, 8) = EmittedAll(FlatPairs(TheField.subs))
        /\ IsPairIterable(TheField)
              => pc # "raised" /\ From(TheLine, 8) = EmittedAll(TheField.subs)

\* C14: in each of the three representations the call returns.  A list of
\* Subfield objects and a flat list of codes and values are written whole,
\* "$" + code + value in stored order.  Of another iterable, the items are
\* written in order as long as they have the attributes code and value: from
\* the first plain (code, value) tuple on, nothing is written.
C14_ThreeRepresentations ==
    OneDataField =>
        /\ IsObjectList(TheField)
              => pc # "raised" /\ From(TheLine, 8) = EmittedAll(TheField.subs)
        /\ IsFlatList(TheField)
              => pc # "raised" /\ From(TheLine, 8) = EmittedAll(FlatPairs(TheField.subs))
        /\ IsPairIterable(TheField)
              => /\ pc # "raised"
                 /\ From(TheLine, 8) = EmittedAll(SubfieldsInFront(TheField.subs))

C14_Witness ==
    /\ OneDataField /\ pc = "serialized"
    /\ IsPairIterable(TheField)
    /\ TheField.subs = <<SubAX, PairBY>>
    /\ From(TheLine, 8) = <<"$", "a", "x">>

-----------------------------------------------------------------------------
(* calls running at the same time *)

\* what the call returns when it runs alone
Alone(call) ==
    IF call.fn = "parse" THEN mrk_str_to_field(call.arg.line)
    ELSE IF call.fn = "serialize" THEN record_to_mrk_from_record(call.arg.rec)
    ELSE build_008_kormarc_bk(call.arg.args)

\* C15 as stated: whatever the interleaving of the steps of concurrent calls
\* of the three functions, each call returns what it returns when run alone,
\* and the record keeps its leader and its fields.
C15_AsStated ==
    \A c \in Calls :
        /\ calls[c].pc = "done" => calls[c].result = Alone(calls[c])
        /\ calls[c].fn = "serialize"
              => rec.leader = calls[c].arg.rec.leader
                 /\ rec.fields = calls[c].arg.rec.fields

\* no data field of the record is its own iterator
NoOwnIterator == \A k \in 1..Len(rec.fields) : ~ReadsOwnIterator(rec.fields[k])

\* C15: whatever the interleaving of the steps of concurrent calls, every
\* call of mrk_str_to_field and of build_008_kormarc_bk returns what it
\* returns when run alone, and so does every call of
\* record_to_mrk_from_record on a record none of whose data fields is read
\* through an iterator position the field keeps itself; the record keeps its
\* leader and the tag, data, indicators and subfields of its fields.
C15_NoSharedState ==
    \A c \in Calls :
        /\ (calls[c].pc = "done" /\ (calls[c].fn # "serialize" \/ NoOwnIterator))
              => calls[c].result = Alone(calls[c])
        /\ calls[c].fn = "serialize"
              => rec.leader = calls[c].arg.rec.leader
                 /\ rec.fields = calls[c].arg.rec.fields

C15_Witness ==
    /\ \A c \in Calls : calls[c].pc = "done"
    /\ \E c \in Calls, d \in Calls :
          /\ c # d
          /\ calls[c].fn = "serialize" /\ calls[d].fn = "serialize"
          /\ calls[c].result = Alone(calls[c])
          /\ calls[c].result # AttributeError
    /\ \E c \in Calls :
          /\ calls[c].fn = "serialize"
          /\ Locals(c).i = Len(rec.fields)
    /\ NoOwnIterator
    /\ Len(rec.fields) = 2

-----------------------------------------------------------------------------
(* the two pipelines compared *)

\* norm of test_diff.py: every line without the whitespace at its end, the
\* whole text stripped
norm(text) ==
    LET ls == SplitAt(text, "\n")
    IN  Strip(Join([k \in 1..Len(ls) |-> RStrip(ls[k])], <<"\n">>))

\* clean_meta of test_diff.py
clean_meta(meta) ==
    {kv \in meta : kv[1] \notin {"debug", "debug_lines", "Provenance"}}

BothRun == out.new # NotRun /\ out.orig # NotRun

\* C16: on the same results of the lookups the two pipelines give the same
\* sequence of record fields, the same text after norm, and the same meta
\* apart from the keys debug, debug_lines and Provenance.
C16_AsStated ==
    BothRun =>
        /\ out.orig.st = "ok" /\ out.new.st = "ok"
        /\ out.new.fields = out.orig.fields
        /\ norm(out.new.mrk) = norm(out.orig.mrk)
        /\ clean_meta(out.new.meta) = clean_meta(out.orig.meta)

-----------------------------------------------------------------------------
(* a parsed text written again *)

AsBackslash(c) == IF c = " " THEN "\\" ELSE c

\* the line L with a blank at either indicator position written as a backslash
WithBackslashes(L) ==
    IF Len(L) < 8 THEN L
    ELSE SubSeq(L, 1, 6) \o <<AsBackslash(L[7]), AsBackslash(L[8])>> \o From(L, 8)

\* the line written for the field that was returned for the text
WrittenAgain == MrkLines[2]

DataFieldWrittenAgain ==
    pc = "reserialized" /\ line.kind = "str" /\ field.kind = "data"

\* a line as the serializer writes it: no whitespace at its ends, two blanks
\* after the tag, subfields right after the indicators, every subfield a code
\* other than "$" and a value that is not empty and has no whitespace at its
\* ends
AsWritten(L) ==
    /\ Strip(L) = L /\ HasDataShape(L) /\ Len(L) >= 9
    /\ L[9] = "$"
    /\ LET pieces == Tail(SplitAt(From(L, 8), "$"))
       IN  \A k \in 1..Len(pieces) :
              Len(pieces[k]) >= 2 /\ Strip(Tail(pieces[k])) = Tail(pieces[k])

\* C17 as stated: for every data-field line L that mrk_str_to_field accepts,
\* serializing the returned field gives L back exactly, apart from blank
\* indicators written as backslashes.
C17_AsStated ==
    DataFieldWrittenAgain => WrittenAgain = WithBackslashes(line.text)

\* C17: for every accepted data-field line L that has no whitespace at its
\* ends, two blanks after the tag, its first "$" right after the indicators,
\* and subfields that each have a code other than "$" and a non-empty value
\* without whitespace at its ends, serializing the returned field gives L back
\* exactly, apart from blank indicators written as backslashes; for any other
\* accepted line the line written is never longer than L.
C17_TextRoundTrip ==
    DataFieldWrittenAgain =>
        /\ AsWritten(line.text) => WrittenAgain = WithBackslashes(line.text)
        /\ Len(WrittenAgain) <= Len(line.text)

C17_Witness ==
    /\ DataFieldWrittenAgain
    /\ AsWritten(line.text)
    /\ Len(field.subs) = 2
    /\ WrittenAgain = WithBackslashes(line.text)

-----------------------------------------------------------------------------
(* subfield codes *)

LowerCase ==
    {"a", "b", "c", "d", "e", "f", "g", "h", "i", "j", "k", "l", "m", "n", "o",
     "p", "q", "r", "s", "t", "u", "v", "w", "x", "y", "z"}

DataFieldFromText ==
    pc \in {"returned", "parsed"} /\ line.kind = "str" /\ field.kind = "data"

\* C18 as stated: every subfield of every field mrk_str_to_field returns has
\* a code that is one lowercase letter or digit.
C18_AsStated ==
    DataFieldFromText =>
        \A k \in 1..Len(field.subs) :
            /\ Len(field.subs[k][1]) = 1
            /\ field.subs[k][1][1] \in LowerCase \cup Digits

-----------------------------------------------------------------------------
(* passthrough *)

\* C19: an argument that already is field-like is returned as it is, the
\* same object; hence calling mrk_str_to_field on a result that is not None
\* gives that result again.
C19_Passthrough ==
    /\ (pc = "returned" /\ FieldLikeArgument) => field = line.fld
    /\ (pc = "returned2") => field = line.fld /\ field # NoField

C19_Witness ==
    /\ pc = "returned2"
    /\ line.fld = DataField(Tag245, <<<<"1">>, <<"0">>>>, <<Subfield(<<"a">>, <<"a">>)>>)
    /\ field = line.fld

-----------------------------------------------------------------------------
(* a "$" inside a value *)

Dollars(t) == {k \in 1..Len(t) : t[k] = "$"}

\* a tail  $ c v1 $ v2 : a "$", a code that is not "$", a text without "$",
\* a second "$", and a text without "$" that may be empty
HasInnerDollar(t) ==
    /\ Len(t) >= 3 /\ t[1] = "$" /\ t[2] # "$"
    /\ Cardinality(Dollars(t)) = 2

InnerDollar(t) == CHOOSE k \in Dollars(t) : k > 1

\* the subfield of a code and a text, none when the text trims to nothing
OneSubfield(code, text) ==
    IF Strip(text) = <<>> THEN <<>> ELSE <<Subfield(<<code>>, Strip(text))>>

\* what the claim gives for  $ c v1 $ v2
SplitAtInnerDollar(t) ==
    LET n  == InnerDollar(t)
        v1 == SubSeq(t, 3, n - 1)
        v2 == From(t, n)
    IN  OneSubfield(t[2], v1)
        \o (IF v2 = <<>> THEN <<>> ELSE OneSubfield(v2[1], Tail(v2)))

\* C20: on a data-field line whose text behind the indicators is  $ c v1 $ v2
\* the parser does not raise; it ends the first value at the inner "$" and
\* starts a subfield whose code is the character after that "$" and whose
\* value is the rest, both values trimmed and a subfield left out when its
\* value trims to nothing; a "$" that is the last character starts no
\* subfield; None is returned when no subfield is left.
C20_InnerDollarSplits ==
    (pc = "returned" /\ IsDataLine /\ HasInnerDollar(LineTail)) =>
        LET expected == SplitAtInnerDollar(LineTail)
        IN  /\ field.kind # "raise"
            /\ IF expected = <<>> THEN field = NoField
               ELSE field.kind = "data" /\ field.subs = expected
            /\ LineTail[Len(LineTail)] = "$" => Len(field.subs) <= 1

C20_Witness ==
    /\ pc = "returned" /\ IsDataLine
    /\ LineTail = <<"$", "a", "a", "$", " ", "a">>
    /\ field.kind = "data"
    /\ field.subs = <<Subfield(<<"a">>, <<"a">>), Subfield(<<" ">>, <<"a">>)>>

-----------------------------------------------------------------------------
(* the length check of the 008 builder *)

\* C21: the final length check of build_008_kormarc_bk never fails: when the
\* two checks of date_entered and date1 pass, the assembled body has 40
\* characters and the call returns it, whatever the other arguments are
\* (None, empty, too long, has_index other than "0" and "1").
C21_LengthCheckNeverFails ==
    (pc \in {"built", "parsed008"}) =>
        /\ body.st # "AssertionError"
        /\ DatesValid(WithDefaults(args)) =>
              /\ body.st = "ok"
              /\ Len(body.text) = 40
              /\ Len(Assemble008(WithDefaults(args))) = 40

C21_Witness ==
    /\ pc = "built" /\ body.st = "ok" /\ Len(body.text) = 40
    /\ args.has_index = <<"1", "0">>
    /\ args.country3 = NoneV
    /\ args.date2 = <<"2", "0", "2", "5", "6">>
    /\ args.type_of_date = <<>>
    /\ args.lang3 = <<"e", "n", "g", "x">>

-----------------------------------------------------------------------------
(* the record and the text of the True Patch pipeline *)

TruePatchRan == out.new # NotRun /\ out.new.st = "ok"

\* the lines of the text the True Patch pipeline returned
NewLines == IF out.new.mrk = <<>> THEN <<>> ELSE SplitAt(out.new.mrk, "\n")

\* the texts the pipeline was given or formats itself, each with the field
\* made for it
Made(u) ==
    LET parsed(m) == <<Parse(m), m>>
        tag_056   == Tag056Line(u.kdc_code)
    IN  {<<ControlField(Tag008, u.data_008), TagHead(Tag008) \o u.data_008>>,
         <<ControlField(Tag007, <<"t", "a">>), TagHead(Tag007) \o <<"t", "a">>>>,
         <<u.f_300, u.tag_300>>,
         parsed(u.tag_020), parsed(SetIsbnLine(u.set_isbn)),
         parsed(AsMrk(Tag041, u.tag_041_text)), parsed(tag_056),
         parsed(u.marc245), parsed(u.marc246), parsed(u.tag_260),
         parsed(u.tag_490), parsed(AsMrk(Tag546, u.tag_546_text)),
         parsed(u.tag_653), parsed(u.tag_830), parsed(u.tag_950),
         parsed(u.tag_049)}
        \cup {parsed(u.mrk_700[k]) : k \in 1..Len(u.mrk_700)}
        \cup {parsed(u.mrk_90010[k]) : k \in 1..Len(u.mrk_90010)}
        \cup {parsed(u.mrk_940[k]) : k \in 1..Len(u.mrk_940)}

-----------------------------------------------------------------------------
(* the order of the fields *)

\* the place of a field in the assembly, by its tag; the 020 of a set ISBN
\* has first indicator 1
Slot(f) ==
    CASE f.tag = <<"0", "0", "8">> -> 1
      [] f.tag = <<"0", "0", "7">> -> 2
      [] f.tag = <<"0", "2", "0">> -> IF f.ind[1] = <<"1">> THEN 4 ELSE 3
      [] f.tag = <<"0", "4", "1">> -> 5
      [] f.tag = <<"0", "5", "6">> -> 6
      [] f.tag = <<"2", "4", "5">> -> 7
      [] f.tag = <<"2", "4", "6">> -> 8
      [] f.tag = <<"2", "6", "0">> -> 9
      [] f.tag = <<"3", "0", "0">> -> 10
      [] f.tag = <<"4", "9", "0">> -> 11
      [] f.tag = <<"5", "4", "6">> -> 12
      [] f.tag = <<"6", "5", "3">> -> 13
      [] f.tag = <<"7", "0", "0">> -> 14
      [] f.tag = <<"9", "0", "0">> -> 15
      [] f.tag = <<"9", "4", "0">> -> 16
      [] f.tag = <<"8", "3", "0">> -> 17
      [] f.tag = <<"9", "5", "0">> -> 18
      [] f.tag = <<"0", "4", "9">> -> 19
      [] OTHER -> 0

ListSlots == {14, 15, 16}

NewTags == [i \in 1..Len(out.new.fields) |-> out.new.fields[i].tag]

\* C23: the True Patch generate_all_oneclick adds the fields in the order
\* 008, 007, 020, 020 of the set ISBN, 041, 056, 245, 246, 260, 300, 490, 546,
\* 653, every 700, every 900, every 940, 830, 950, 049, leaving out the absent
\* ones: 008 is first and 007 second, every other kind than 700, 900 and 940
\* is added at most once, 041 only when the 041 text contains "$h", and the
\* order is the order of the slots, not the order of the tags.
C23_FixedOrder ==
    TruePatchRan =>
        LET fs == out.new.fields
        IN  /\ Len(fs) >= 2
            /\ fs[1].tag = Tag008 /\ fs[2].tag = Tag007
            /\ \A i \in 1..Len(fs) : Slot(fs[i]) # 0
            /\ \A i \in 1..(Len(fs) - 1) :
                  \/ Slot(fs[i]) < Slot(fs[i + 1])
                  \/ Slot(fs[i]) = Slot(fs[i + 1]) /\ Slot(fs[i]) \in ListSlots
            /\ (\E i \in 1..Len(fs) : fs[i].tag = Tag041)
                  => /\ ~upstream.tags_raise
                     /\ Contains(upstream.tag_041_text, <<"$", "h">>)

C23_Witness ==
    /\ TruePatchRan
    /\ NewTags = <<Tag008, Tag007, Tag020, Tag020, Tag041, Tag056, Tag245,
                   <<"2", "4", "6">>, <<"2", "6", "0">>, <<"3", "0", "0">>,
                   <<"4", "9", "0">>, Tag546, <<"6", "5", "3">>, Tag700,
                   <<"9", "0", "0">>, <<"9", "4", "0">>, <<"8", "3", "0">>,
                   <<"9", "5", "0">>, <<"0", "4", "9">>>>

-----------------------------------------------------------------------------
(* what run_and_export hands back *)

\* C24: run_and_export returns what generate_all_oneclick returned: its
\* record, marc_bytes, meta and mrk_text entries are the four values of that
\* call, mrk_text line for line the text generate_all_oneclick built.
C24_AsStated ==
    (pc = "exported") =>
        LET g == generate_all_oneclick(upstream)
        IN  /\ out.exp.fields = g.fields
            /\ out.exp.meta = g.meta
            /\ out.exp.mrk = g.mrk

-----------------------------------------------------------------------------
(* the calls handle_ui makes *)

\* the calls made so far for the rows of the file, the one for the ISBN box
\* left out
HasSingle == Strip(upstream.form.single_isbn) # <<>>
RowCalls == IF HasSingle /\ out.calls # <<>> THEN Tail(out.calls) ELSE out.calls

\* C25: for every row of an uploaded CSV that has the four columns handle_ui
\* calls run_and_export with isbn, reg_mark, reg_no and copy_symbol taken from
\* the ISBN, 등록기호, 등록번호 and 별치기호 columns of that row; the jobs run in
\* order, the ISBN of the box first and then the rows from the top, one call
\* and one result for each.
C25_AsStated ==
    (pc \in {"ui_running", "ui_finished"}) =>
        /\ Len(out.results) = Len(out.calls)
        /\ (HasSingle /\ out.calls # <<>>) =>
              out.calls[1] = [isbn |-> Strip(upstream.form.single_isbn),
                              reg_mark |-> "", reg_no |-> "", copy_symbol |-> ""]
        /\ (pc = "ui_finished" /\ upstream.form.file = "ok") =>
              Len(RowCalls) = Len(upstream.form.rows)
        /\ upstream.form.file = "ok" =>
              \A k \in 1..Len(RowCalls) :
                  /\ RowCalls[k].isbn = upstream.form.rows[k].ISBN
                  /\ RowCalls[k].reg_mark = upstream.form.rows[k].reg_mark
                  /\ RowCalls[k].reg_no = upstream.form.rows[k].reg_no
                  /\ RowCalls[k].copy_symbol = upstream.form.rows[k].copy_symbol

-----------------------------------------------------------------------------
(* the debug lines a call returns *)

\* meta["debug_lines"] of the k-th call that returned, as it reads now
DebugLines(k) == out.lists[out.metas[k]]

-----------------------------------------------------------------------------
(* the 008 body made from the lookups of an ISBN *)

\* the positions of the pubdate where a year 19xx or 20xx starts
YearStarts(s) ==
    IF s = NoneV THEN {}
    ELSE {n \in 1..Len(s) : IsYearAt(From(s, n - 1))}

\* C27: build_008_from_isbn of field_builders.py never fails the checks of
\* the 008 builder and returns 40 characters, for every pubdate, text and
\* override: date1 is the leftmost 19xx or 20xx year of the pubdate, "19uu"
\* when there is none, date_entered is 6 digits and has_index is "0" or "1".
C27_FromIsbnNeverFails ==
    (pc = "built_from_isbn") =>
        /\ body.st = "ok" /\ Len(body.text) = 40
        /\ Len(args.date1) = 4
        /\ IF YearStarts(upstream.aladin_pubdate) = {}
           THEN args.date1 = <<"1", "9", "u", "u">>
           ELSE \E n \in YearStarts(upstream.aladin_pubdate) :
                   /\ \A k \in YearStarts(upstream.aladin_pubdate) : n <= k
                   /\ args.date1 = SubSeq(upstream.aladin_pubdate, n, n + 3)
        /\ Len(args.date_entered) = 6 /\ IsDigitStr(args.date_entered)
        /\ args.has_index \in {<<"0">>, <<"1">>}
        /\ SubSeq(body.text, 8, 11) = args.date1

C27_Witness ==
    /\ pc = "built_from_isbn"
    /\ upstream.aladin_pubdate = <<"1", "2", "0", "1", "9", "9">>
    /\ upstream.override_country3 = <<"u", "l", "k", "x">>
    /\ upstream.bigtext = Words
    /\ args.date1 = <<"2", "0", "1", "9">>
    /\ body.st = "ok" /\ Len(body.text) = 40

\* C28: the copies of the 008 body builder reject the same arguments and
\* return the same string for the same arguments: build_008_kormarc_bk and
\* build_008_body_bk of field_builders.py and the two build_008_kormarc_bk of
\* utils.py.
C28_AsStated ==
    (pc = "built") =>
        /\ build_008_body_bk(args) = body
        /\ build_008_kormarc_bk_utils2406(args) = body
        /\ build_008_kormarc_bk_utils4036(args) = body

\* C29: the simplified build_008_from_isbn of utils.py returns 40 characters
\* laid out as its comment says, for every pubdate and every override: the
\* date entered at 0-5, "s" at 6, the year at 7-10, the country code at 15-17
\* and the language code at 35-37.
C29_AsStated ==
    (pc = "built_simplified") =>
        LET country3 == IF upstream.override_country3 \in {NoneV, <<>>}
                        THEN <<"k", "o", " ">> ELSE upstream.override_country3
            lang3    == IF upstream.override_lang3 \in {NoneV, <<>>}
                        THEN <<"k", "o", "r">> ELSE upstream.override_lang3
        IN  /\ Len(body.text) = 40
            /\ SubSeq(body.text, 1, 6) = upstream.today
            /\ body.text[7] = "s"
            /\ SubSeq(body.text, 8, 11) = YearOfPubdate(upstream.aladin_pubdate)
            /\ SubSeq(body.text, 16, 18) = country3
            /\ SubSeq(body.text, 36, 38) = lang3

\* a data field without subfields, or a data-shaped field with a tag below 10
Misshapen(f) ==
    f.kind = "data" /\ (f.subs = <<>> \/ TagBelow10(f.tag))

\* C30: the copies of mrk_str_to_field are equivalent: for every line the
\* one of mrk_helpers.py and the three of utils.py all return null or all
\* return the same field, and none returns a data field with no subfields
\* or a data-shaped field for a tag below 10.
C30_AsStated ==
    (pc = "returned" /\ line.kind = "str") =>
        /\ mrk_str_to_field_utils1820(line) = field
        /\ mrk_str_to_field_utils3476(line) = field
        /\ mrk_str_to_field_utils6035(line) = field
        /\ ~Misshapen(field)
        /\ ~Misshapen(mrk_str_to_field_utils1820(line))
        /\ ~Misshapen(mrk_str_to_field_utils3476(line))
        /\ ~Misshapen(mrk_str_to_field_utils6035(line))

====
